---------------------------- MODULE Spec2Model ----------------------------
(***************************************************************************)
(* Photo-to-product session manager of street-photo-tool (src/server.js,   *)
(* latest revision, lines 1-331) together with the image upload loop of    *)
(* src/shopify.js.                                                         *)
(*                                                                         *)
(* JavaScript strings that the code takes apart (file paths) are modelled  *)
(* as sequences of one-character strings, so that path.resolve,            *)
(* path.normalize, path.extname, path.basename and toLowerCase are         *)
(* computed the way node computes them (POSIX flavour, separator "/").     *)
(* Strings the code only stores (titles, error texts) are TLA+ strings.    *)
(***************************************************************************)
EXTENDS Integers, Sequences, FiniteSets, TLC

(***************************************************************************)
(* Bounds of the model.                                                    *)
(***************************************************************************)
\* longest queue the watcher is let to build
MaxQueue == 2
\* longest order array sent to /api/reorder-photos
MaxOrder == 2

(***************************************************************************)
(* Strings as character sequences.                                         *)
(***************************************************************************)
UpperChars == <<"A","B","C","D","E","F","G","H","I","J","K","L","M",
                "N","O","P","Q","R","S","T","U","V","W","X","Y","Z">>
LowerChars == <<"a","b","c","d","e","f","g","h","i","j","k","l","m",
                "n","o","p","q","r","s","t","u","v","w","x","y","z">>

LowerChar(c) ==
  IF \E i \in 1..26 : UpperChars[i] = c
  THEN LowerChars[CHOOSE i \in 1..26 : UpperChars[i] = c]
  ELSE c

\* String.prototype.toLowerCase
toLowerCase(s) == [i \in 1..Len(s) |-> LowerChar(s[i])]

\* String.prototype.split('/'): the pieces between separators, empty ones kept
SplitFrom(s, i, cur) ==
  LET seps == <<i - 1>>
                \o SelectSeq([k \in 1..Len(s) |-> k], LAMBDA k : k >= i /\ s[k] = "/")
                \o <<Len(s) + 1>>
      pieces == [n \in 1..(Len(seps) - 1) |-> SubSeq(s, seps[n] + 1, seps[n + 1] - 1)]
  IN [pieces EXCEPT ![1] = cur \o @]

IsNonEmpty(x) == x # <<>>

Segments(s) == SelectSeq(SplitFrom(s, 1, <<>>), IsNonEmpty)

isAbsolute(p) == p # <<>> /\ p[1] = "/"

\* node's normalizeString: "." dropped, ".." pops a segment; above the root
\* ".." is dropped for an absolute path and kept for a relative one
RECURSIVE normalizeString(_, _, _)
normalizeString(segs, acc, allowAboveRoot) ==
  IF segs = <<>> THEN acc
  ELSE LET h == Head(segs)
           t == Tail(segs)
       IN IF h = <<".">> THEN normalizeString(t, acc, allowAboveRoot)
          ELSE IF h = <<".", ".">>
          THEN IF acc # <<>> /\ acc[Len(acc)] # <<".", ".">>
               THEN normalizeString(t, SubSeq(acc, 1, Len(acc) - 1), allowAboveRoot)
               ELSE IF allowAboveRoot
               THEN normalizeString(t, Append(acc, h), allowAboveRoot)
               ELSE normalizeString(t, acc, allowAboveRoot)
          ELSE normalizeString(t, Append(acc, h), allowAboveRoot)

RECURSIVE JoinSegs(_)
JoinSegs(segs) ==
  IF segs = <<>> THEN <<>>
  ELSE IF Len(segs) = 1 THEN Head(segs)
  ELSE Head(segs) \o <<"/">> \o JoinSegs(Tail(segs))

\* path.normalize (posix): a trailing separator is kept
normalize(p) ==
  IF p = <<>> THEN <<".">>
  ELSE LET abs == isAbsolute(p)
           trailing == p[Len(p)] = "/"
           body == JoinSegs(normalizeString(Segments(p), <<>>, ~abs))
       IN IF body = <<>>
          THEN IF abs THEN <<"/">> ELSE IF trailing THEN <<".", "/">> ELSE <<".">>
          ELSE (IF abs THEN <<"/">> ELSE <<>>) \o body
               \o (IF trailing THEN <<"/">> ELSE <<>>)

\* path.resolve(from, to) for an absolute `from`: an absolute `to` wins, an
\* empty `to` is skipped; the result is normalized without trailing separator
resolve(from, to) ==
  LET joined == IF isAbsolute(to) THEN to
                ELSE IF to = <<>> THEN from
                ELSE from \o <<"/">> \o to
  IN <<"/">> \o JoinSegs(normalizeString(Segments(joined), <<>>, FALSE))

\* path.basename(p): the last non-empty segment
basename(p) ==
  LET segs == Segments(p)
  IN IF segs = <<>> THEN <<>> ELSE segs[Len(segs)]

LastDot(b) ==
  IF \E i \in 1..Len(b) : b[i] = "."
  THEN CHOOSE i \in 1..Len(b) : b[i] = "." /\ \A j \in (i + 1)..Len(b) : b[j] # "."
  ELSE 0

\* path.extname(p): from the last "." of the basename; "" when there is no
\* dot, when the only dot is the first character, and for ".."
extname(p) ==
  LET b == basename(p)
      k == LastDot(b)
  IN IF k <= 1 \/ b = <<".", ".">> THEN <<>> ELSE SubSeq(b, k, Len(b))

EndsWith(s, suffix) ==
  /\ Len(suffix) <= Len(s)
  /\ SubSeq(s, Len(s) - Len(suffix) + 1, Len(s)) = suffix

\* path.basename(p, ext): the suffix is removed unless it is the whole name
basenameExt(p, ext) ==
  LET b == basename(p)
  IN IF ext # <<>> /\ b # ext /\ EndsWith(b, ext)
     THEN SubSeq(b, 1, Len(b) - Len(ext))
     ELSE b


(***************************************************************************)
(* The files and requests the model draws its inputs from.                 *)
(***************************************************************************)
\* WATCH_DIR: path.resolve() of the configured folder, here "/w"
WATCH_DIR == <<"/", "w">>

\* "a.jpg", "b.PNG", "n.txt": names below the watched folder
NameA == <<"a", ".", "j", "p", "g">>
NameB == <<"b", ".", "P", "N", "G">>
NameN == <<"n", ".", "t", "x", "t">>
\* the same files as absolute paths, the way chokidar reports them
FileA == WATCH_DIR \o <<"/">> \o NameA
FileB == WATCH_DIR \o <<"/">> \o NameB
FileN == WATCH_DIR \o <<"/">> \o NameN
\* "/etc/passwd": a file outside the watched folder, and a relative path
\* ("../etc/passwd") that resolves to it
Outside == <<"/", "e", "t", "c", "/", "p", "a", "s", "s", "w", "d">>
RelOutside == <<".", ".", "/", "e", "t", "c", "/", "p", "a", "s", "s", "w", "d">>
\* "z.jpg": a name no file has; "./a.jpg": a spelling of "a.jpg" that
\* path.resolve normalizes
NameZ == <<"z", ".", "j", "p", "g">>
RelDotA == <<".", "/">> \o NameA

\* paths the watcher can report
WatchPaths == {FileA, FileB, FileN}
\* more names for the watcher alone: "c.jpeg", "d.HeIc", "e.gif", "jpg" (a
\* name without a dot) and "g.jpg.txt"
FileC == WATCH_DIR \o <<"/", "c", ".", "j", "p", "e", "g">>
FileD == WATCH_DIR \o <<"/", "d", ".", "H", "e", "I", "c">>
FileE == WATCH_DIR \o <<"/", "e", ".", "g", "i", "f">>
FileJ == WATCH_DIR \o <<"/", "j", "p", "g">>
FileG == WATCH_DIR \o <<"/", "g", ".", "j", "p", "g", ".", "t", "x", "t">>
NotifiedPaths == WatchPaths \cup {FileC, FileD, FileE, FileJ, FileG}
\* relPath values sent to /api/remove-photo (<<>> is a missing relPath)
RelInputs == {<<>>, RelDotA, NameB, NameZ, RelOutside}
\* entries of the order array sent to /api/reorder-photos
OrderEntries == {NameA, NameB}

\* a body without an array under "order"
NotAnArray == <<"not an array">>
\* the order arrays, up to MaxOrder entries
OrderArrays == UNION {[1..n -> OrderEntries] : n \in 0..MaxOrder}
OrderInputs == {NotAnArray} \cup OrderArrays

\* JavaScript null in a field that otherwise holds a string
JsNull == "null"
\* bodies sent to /api/select-product: without an id, with an id that is
\* falsy in JavaScript (0 stands for 0 and for the empty string), and two
\* with a usable id
SelectBodies ==
  { [title |-> "Blue Cap"],
    [id |-> 0, title |-> "Green Bag"],
    [id |-> 42, title |-> "Red Hat"],
    [id |-> 43] }

\* the /api/done requests that can be in flight: one at a time
Reqs == {1}

\* const relToAbs = rel => path.resolve(WATCH_DIR, rel), tabulated over the
\* relative paths the requests carry
KnownRel == RelInputs \cup OrderEntries
relToAbs == [rel \in KnownRel |-> resolve(WATCH_DIR, rel)]
\* const normalize = p => path.normalize(p), tabulated over the absolute
\* paths that can meet in a comparison
KnownAbs == WatchPaths \cup {relToAbs[rel] : rel \in KnownRel}
normalized == [p \in KnownAbs |-> normalize(p)]

(***************************************************************************)
(* State.                                                                  *)
(***************************************************************************)
VARIABLES
  currentProduct,  \* <<>> for null, <<[id, title, sku, created_at]>> otherwise
  queuedFiles,     \* absolute file paths for the current product
  disk,            \* the regular files that exist (absolute paths)
  pc,              \* per /api/done request: where the handler is suspended
  productId,       \* per request: const productId
  filesToDelete,   \* per request: const filesToDelete
  croppedImages,   \* per request: the array Promise.all fills in
  imgIdx,          \* per request: position of the upload loop in images
  posted,          \* per request: image POSTs the catalog has accepted
  reply,           \* per request: the response the handler sent
  logged           \* per request: the failures the handler caught and only
                   \* logged ("status", "publish", "unlink")

vars == <<currentProduct, queuedFiles, disk, pc, productId,
          filesToDelete, croppedImages, imgIdx, posted, reply, logged>>

session == <<currentProduct, queuedFiles>>
locals == <<pc, productId, filesToDelete, croppedImages, imgIdx, posted, reply,
            logged>>

Null == <<>>
NoBuffer == [bytes |-> "none", of |-> <<>>]

\* res.status(status).json({ error }); res.json({ ok: true }) is Ok
Response(status, error) == [status |-> status, error |-> error]
Ok == Response(200, "")
\* no response sent yet
NoResponse == Response(0, "")

Range(s) == {s[i] : i \in 1..Len(s)}

Init ==
  /\ currentProduct = Null
  /\ queuedFiles = <<>>
  /\ disk = {Outside, FileN}
  /\ pc = [r \in Reqs |-> "idle"]
  /\ productId = [r \in Reqs |-> 0]
  /\ filesToDelete = [r \in Reqs |-> <<>>]
  /\ croppedImages = [r \in Reqs |-> <<>>]
  /\ imgIdx = [r \in Reqs |-> 0]
  /\ posted = [r \in Reqs |-> <<>>]
  /\ reply = [r \in Reqs |-> NoResponse]
  /\ logged = [r \in Reqs |-> {}]

(***************************************************************************)
(* POST /api/select-product                                                *)
(***************************************************************************)
\* `x || dflt` on a body field: an absent or empty field takes the default
FieldOr(body, k, dflt) ==
  IF k \in DOMAIN body /\ body[k] # "" THEN body[k] ELSE dflt

\* the response: the handler is synchronous, its response is a function of
\* the request
SelectProductRes(body) ==
  IF ~("id" \in DOMAIN body) \/ body["id"] = 0
  THEN Response(400, "Missing product id")
  ELSE Ok

\* a variant of the handler that replaces the selection and keeps the queue
SelectProductKeepingQueue(body) ==
  /\ IF SelectProductRes(body) # Ok
     THEN UNCHANGED session
     ELSE /\ currentProduct' = << [ id |-> body["id"],
                                    title |-> FieldOr(body, "title", ""),
                                    sku |-> FieldOr(body, "sku", JsNull),
                                    created_at |-> FieldOr(body, "created_at", JsNull) ] >>
          /\ UNCHANGED queuedFiles
  /\ UNCHANGED <<disk, locals>>

\* a variant of the handler that deletes the files of the queue it drops
SelectProductDeletingQueued(body) ==
  /\ IF SelectProductRes(body) # Ok
     THEN UNCHANGED <<session, disk>>
     ELSE /\ currentProduct' = << [ id |-> body["id"],
                                    title |-> FieldOr(body, "title", ""),
                                    sku |-> FieldOr(body, "sku", JsNull),
                                    created_at |-> FieldOr(body, "created_at", JsNull) ] >>
          /\ queuedFiles' = <<>>
          /\ disk' = disk \ Range(queuedFiles)
  /\ UNCHANGED locals

\* a variant of the handler that empties the queue before it looks at the id
SelectProductClearingFirst(body) ==
  /\ queuedFiles' = <<>>
  /\ IF SelectProductRes(body) # Ok
     THEN UNCHANGED currentProduct
     ELSE currentProduct' = << [ id |-> body["id"],
                                 title |-> FieldOr(body, "title", ""),
                                 sku |-> FieldOr(body, "sku", JsNull),
                                 created_at |-> FieldOr(body, "created_at", JsNull) ] >>
  /\ UNCHANGED <<disk, locals>>

\* a variant of the handler that waits while a /api/done is in flight
SelectProductWhenIdle(body) ==
  /\ \A r \in DOMAIN pc : pc[r] = "idle"
  /\ IF SelectProductRes(body) # Ok
     THEN UNCHANGED session
     ELSE /\ currentProduct' = << [ id |-> body["id"],
                                    title |-> FieldOr(body, "title", ""),
                                    sku |-> FieldOr(body, "sku", JsNull),
                                    created_at |-> FieldOr(body, "created_at", JsNull) ] >>
          /\ queuedFiles' = <<>>
  /\ UNCHANGED <<disk, locals>>

SelectProduct(body) ==
  /\ IF SelectProductRes(body) # Ok
     THEN UNCHANGED session
     ELSE /\ currentProduct' = << [ id |-> body["id"],
                                    title |-> FieldOr(body, "title", ""),
                                    sku |-> FieldOr(body, "sku", JsNull),
                                    created_at |-> FieldOr(body, "created_at", JsNull) ] >>
          /\ queuedFiles' = <<>>
  /\ UNCHANGED <<disk, locals>>

(***************************************************************************)
(* GET /api/current-product                                                *)
(***************************************************************************)
\* the handler reads the session and changes nothing
CurrentProductRes ==
  [product |-> currentProduct, queuedCount |-> Len(queuedFiles)]

(***************************************************************************)
(* chokidar 'add' handler                                                  *)
(***************************************************************************)
allowedExts == { <<".", "j", "p", "g">>, <<".", "j", "p", "e", "g">>,
                 <<".", "p", "n", "g">>, <<".", "h", "e", "i", "c">> }

\* const ext = path.extname(filePath).toLowerCase(), tabulated over the
\* paths the watcher can report
watchExt == [filePath \in NotifiedPaths |-> toLowerCase(extname(filePath))]

\* a variant of the handler that does not look at currentProduct
OnFileAddedWithoutSelection(filePath) ==
  LET ext == watchExt[filePath]
  IN IF ext \notin allowedExts
     THEN UNCHANGED session
     ELSE /\ Len(queuedFiles) < MaxQueue
          /\ queuedFiles' = Append(queuedFiles, filePath)
          /\ UNCHANGED currentProduct

\* a variant of the handler that compares the extension as it is written
OnFileAddedCaseSensitive(filePath) ==
  LET ext == extname(filePath)
  IN IF ext \notin allowedExts
     THEN UNCHANGED session
     ELSE IF currentProduct # Null
     THEN /\ Len(queuedFiles) < MaxQueue
          /\ queuedFiles' = Append(queuedFiles, filePath)
          /\ UNCHANGED currentProduct
     ELSE UNCHANGED session

\* a variant of the handler that puts the new path in front
OnFileAddedAtFront(filePath) ==
  LET ext == watchExt[filePath]
  IN IF ext \notin allowedExts
     THEN UNCHANGED session
     ELSE IF currentProduct # Null
     THEN /\ Len(queuedFiles) < MaxQueue
          /\ queuedFiles' = <<filePath>> \o queuedFiles
          /\ UNCHANGED currentProduct
     ELSE UNCHANGED session

\* the handler's effect on the session; the queue is capped at MaxQueue
OnFileAdded(filePath) ==
  LET ext == watchExt[filePath]
  IN IF ext \notin allowedExts
     THEN UNCHANGED session
     ELSE IF currentProduct # Null
     THEN /\ Len(queuedFiles) < MaxQueue
          /\ queuedFiles' = Append(queuedFiles, filePath)
          /\ UNCHANGED currentProduct
     ELSE UNCHANGED session

\* a file is dropped into the watched folder and chokidar reports it
FileDropped(filePath) ==
  /\ filePath \notin disk
  /\ disk' = disk \cup {filePath}
  /\ OnFileAdded(filePath)
  /\ UNCHANGED locals

\* chokidar reports a file that is already there once more (at-least-once
\* delivery: a rewrite or re-creation of the file fires 'add' again)
FileReported(filePath) ==
  /\ filePath \in disk
  /\ OnFileAdded(filePath)
  /\ UNCHANGED <<disk, locals>>

\* a file of the watched folder is deleted or moved away by the user; the
\* server subscribes to 'add' only, so no handler runs
FileVanished(filePath) ==
  /\ filePath \in disk
  /\ disk' = disk \ {filePath}
  /\ UNCHANGED <<session, locals>>

(***************************************************************************)
(* POST /api/remove-photo                                                  *)
(***************************************************************************)
RemovePhotoRes(relPath) ==
  IF relPath = <<>> THEN Response(400, "Missing relPath") ELSE Ok

\* a variant of the handler that deletes the file first and gives up, with
\* the queue as it was, when fs.unlinkSync throws
RemovePhotoUnlinkFirst(relPath, unlinkOk) ==
  IF RemovePhotoRes(relPath) # Ok
  THEN /\ unlinkOk
       /\ UNCHANGED <<session, disk, locals>>
  ELSE LET absPath == relToAbs[relPath]
           Keep(p) == normalized[p] # normalized[absPath]
       IN /\ unlinkOk \/ absPath \in disk
          /\ queuedFiles' = IF unlinkOk THEN SelectSeq(queuedFiles, Keep)
                            ELSE queuedFiles
          /\ disk' = IF absPath \in disk /\ unlinkOk
                     THEN disk \ {absPath} ELSE disk
          /\ UNCHANGED <<currentProduct, locals>>

\* a variant of the handler that cuts the queue at the first matching entry
RemovePhotoTruncating(relPath, unlinkOk) ==
  IF RemovePhotoRes(relPath) # Ok
  THEN /\ unlinkOk
       /\ UNCHANGED <<session, disk, locals>>
  ELSE LET absPath == relToAbs[relPath]
           hits == {i \in 1..Len(queuedFiles) :
                      normalized[queuedFiles[i]] = normalized[absPath]}
       IN /\ unlinkOk \/ absPath \in disk
          /\ queuedFiles' =
               IF hits = {} THEN queuedFiles
               ELSE SubSeq(queuedFiles, 1, (CHOOSE i \in hits : \A j \in hits : i <= j) - 1)
          /\ disk' = IF absPath \in disk /\ unlinkOk
                     THEN disk \ {absPath} ELSE disk
          /\ UNCHANGED <<currentProduct, locals>>

\* unlinkOk is FALSE when fs.unlinkSync is called and throws
RemovePhoto(relPath, unlinkOk) ==
  IF RemovePhotoRes(relPath) # Ok
  THEN /\ unlinkOk
       /\ UNCHANGED <<session, disk, locals>>
  ELSE LET absPath == relToAbs[relPath]
           Keep(p) == normalized[p] # normalized[absPath]
       IN /\ unlinkOk \/ absPath \in disk
          /\ queuedFiles' = SelectSeq(queuedFiles, Keep)
          /\ disk' = IF absPath \in disk /\ unlinkOk
                     THEN disk \ {absPath} ELSE disk
          /\ UNCHANGED <<currentProduct, locals>>

(***************************************************************************)
(* POST /api/reorder-photos                                                *)
(***************************************************************************)
\* order.forEach: for each entry, the first queued path equal to it after
\* normalization is pushed, when there is one
RECURSIVE Matched(_, _)
Matched(order, queue) ==
  IF order = <<>> THEN <<>>
  ELSE LET abs == relToAbs[Head(order)]
           hits == {i \in 1..Len(queue) : normalized[queue[i]] = normalized[abs]}
           rest == Matched(Tail(order), queue)
       IN IF hits = {} THEN rest
          ELSE <<queue[CHOOSE i \in hits : \A j \in hits : i <= j]>> \o rest

\* a variant of the response that accepts every array
ReorderPhotosResAnyArray(order) ==
  IF order = NotAnArray THEN Response(400, "Missing order array") ELSE Ok

ReorderPhotosRes(order) ==
  IF order = NotAnArray THEN Response(400, "Missing order array")
  ELSE IF Matched(order, queuedFiles) = <<>>
  THEN Response(400, "Reorder did not match current queue")
  ELSE Ok

\* the queue is capped at MaxQueue here too: an order array that names a
\* path twice can make the new queue longer than the old one
ReorderPhotos(order) ==
  IF ReorderPhotosRes(order) # Ok
  THEN UNCHANGED <<session, disk, locals>>
  ELSE LET newQueued == Matched(order, queuedFiles)
           NotIncluded(p) == p \notin Range(newQueued)
           leftovers == SelectSeq(queuedFiles, NotIncluded)
       IN /\ queuedFiles' = IF Len(newQueued) # Len(queuedFiles)
                            THEN newQueued \o leftovers
                            ELSE newQueued
          /\ Len(queuedFiles') <= MaxQueue
          /\ UNCHANGED <<currentProduct, disk, locals>>

(***************************************************************************)
(* cropImageToSquare                                                       *)
(***************************************************************************)
SquareSuffix == <<"-", "s", "q", "u", "a", "r", "e", ".", "j", "p", "g">>

\* a promise of queuedFiles.map(cropImageToSquare) that has not settled
PendingImage(filePath) ==
  [filePath |-> filePath, filename |-> <<>>, buffer |-> NoBuffer]

\* the try block: the image re-encoded by sharp, named <base>-square.jpg
SquareImage(filePath) ==
  [ filePath |-> filePath,
    filename |-> basenameExt(filePath, extname(filePath)) \o SquareSuffix,
    buffer |-> [bytes |-> "square", of |-> filePath] ]

\* the catch block: the original file's bytes under its own name
RawImage(filePath) ==
  [ filePath |-> filePath,
    filename |-> basename(filePath),
    buffer |-> [bytes |-> "raw", of |-> filePath] ]

IsSettled(image) == image.buffer # NoBuffer

\* what cropImageToSquare yields for each path the watcher can report,
\* tabulated
squareImage == [filePath \in WatchPaths |-> SquareImage(filePath)]
rawImage == [filePath \in WatchPaths |-> RawImage(filePath)]

(***************************************************************************)
(* uploadImagesToProduct                                                   *)
(***************************************************************************)
\* const ext = path.extname(filename).toLowerCase(), tabulated over the
\* filenames cropImageToSquare can yield
ImageNames ==
  {squareImage[p].filename : p \in WatchPaths}
    \cup {rawImage[p].filename : p \in WatchPaths}
uploadExt == [filename \in ImageNames |-> toLowerCase(extname(filename))]

\* the loop's `continue` branches: no usable extension, or no image data
IsPostable(image) ==
  /\ image.filename # <<>>
  /\ uploadExt[image.filename] \in allowedExts
  /\ image.buffer # NoBuffer

\* the first image at or after position i that the loop posts
NextPostable(images, i) ==
  LET later == {j \in i..Len(images) : IsPostable(images[j])}
  IN IF later = {} THEN Len(images) + 1
     ELSE CHOOSE j \in later : \A k \in later : j <= k

\* a variant that reads the selection when the image is posted instead of
\* using the id the handler captured
ImagePostToCurrent(id, image) ==
  [ product |-> IF currentProduct = Null THEN 0 ELSE currentProduct[1].id,
    filename |-> image.filename, attachment |-> image.buffer ]

\* the body of the POST to /products/<id>/images.json
ImagePost(id, image) ==
  [product |-> id, filename |-> image.filename, attachment |-> image.buffer]

(***************************************************************************)
(* POST /api/done                                                          *)
(***************************************************************************)
\* the handler sends `response` and returns: its local variables are gone
Return(r, response) ==
  /\ pc' = [pc EXCEPT ![r] = "idle"]
  /\ productId' = [productId EXCEPT ![r] = 0]
  /\ filesToDelete' = [filesToDelete EXCEPT ![r] = <<>>]
  /\ croppedImages' = [croppedImages EXCEPT ![r] = <<>>]
  /\ imgIdx' = [imgIdx EXCEPT ![r] = 0]
  /\ posted' = [posted EXCEPT ![r] = <<>>]
  /\ reply' = [reply EXCEPT ![r] = response]

\* a variant of the catch block that resets the session like the success
\* path does
DoneFailedClearing(r) ==
  /\ Return(r, Response(500, "Upload or publish failed"))
  /\ currentProduct' = Null
  /\ queuedFiles' = <<>>
  /\ UNCHANGED <<disk, logged>>

\* a variant of the catch block that cleans up the originals of the batch
DoneFailedDeleting(r) ==
  /\ Return(r, Response(500, "Upload or publish failed"))
  /\ disk' = disk \ Range(filesToDelete[r])
  /\ UNCHANGED <<session, logged>>

\* a variant of the catch block that drops the selection and keeps the
\* queue for a retry
DoneFailedDeselecting(r) ==
  /\ Return(r, Response(500, "Upload or publish failed"))
  /\ currentProduct' = Null
  /\ UNCHANGED <<queuedFiles, disk, logged>>

\* the catch block of the handler
DoneFailed(r) ==
  /\ Return(r, Response(500, "Upload or publish failed"))
  /\ UNCHANGED <<session, disk, logged>>

\* a variant of the checks that answers an empty queue with the error of a
\* missing selection
DoneStartOneError(r) ==
  /\ pc[r] = "idle"
  /\ logged' = [logged EXCEPT ![r] = {}]
  /\ IF currentProduct = Null \/ Len(queuedFiles) = 0
     THEN /\ reply' = [reply EXCEPT ![r] = Response(400, "No product selected")]
          /\ UNCHANGED <<session, disk, pc, productId, filesToDelete,
                         croppedImages, imgIdx, posted>>
     ELSE /\ pc' = [pc EXCEPT ![r] = "crop"]
          /\ productId' = [productId EXCEPT ![r] = currentProduct[1].id]
          /\ filesToDelete' = [filesToDelete EXCEPT ![r] = queuedFiles]
          /\ croppedImages' =
               [croppedImages EXCEPT
                  ![r] = [i \in 1..Len(queuedFiles) |-> PendingImage(queuedFiles[i])]]
          /\ reply' = [reply EXCEPT ![r] = NoResponse]
          /\ UNCHANGED <<session, disk, imgIdx, posted>>

\* the request arrives: the checks, the snapshot and the start of every
\* cropImageToSquare, up to the await of Promise.all
DoneStart(r) ==
  /\ pc[r] = "idle"
  /\ logged' = [logged EXCEPT ![r] = {}]
  /\ IF currentProduct = Null
     THEN /\ reply' = [reply EXCEPT ![r] = Response(400, "No product selected")]
          /\ UNCHANGED <<session, disk, pc, productId, filesToDelete,
                         croppedImages, imgIdx, posted>>
     ELSE IF Len(queuedFiles) = 0
     THEN /\ reply' = [reply EXCEPT ![r] = Response(400, "No files queued")]
          /\ UNCHANGED <<session, disk, pc, productId, filesToDelete,
                         croppedImages, imgIdx, posted>>
     ELSE /\ pc' = [pc EXCEPT ![r] = "crop"]
          /\ productId' = [productId EXCEPT ![r] = currentProduct[1].id]
          /\ filesToDelete' = [filesToDelete EXCEPT ![r] = queuedFiles]
          /\ croppedImages' =
               [croppedImages EXCEPT
                  ![r] = [i \in 1..Len(queuedFiles) |-> PendingImage(queuedFiles[i])]]
          /\ reply' = [reply EXCEPT ![r] = NoResponse]
          /\ UNCHANGED <<session, disk, imgIdx, posted>>

\* a variant that collects the values in the order the promises settle: the
\* value goes to the first open position, the promise found there waits at i
SettleInCompletionOrder(images, i, image) ==
  LET open == {j \in 1..Len(images) : images[j].buffer = NoBuffer}
      k == CHOOSE j \in open : \A m \in open : j <= m
  IN [images EXCEPT ![i] = images[k], ![k] = image]

\* Promise.all puts the value of promise i at position i
SettleAt(images, i, image) == [images EXCEPT ![i] = image]

\* a variant of cropImageToSquare without the catch block: the promise
\* rejects as soon as sharp fails
DoneCropSettledWithoutFallback(r, i, sharpOk) ==
  /\ pc[r] = "crop"
  /\ i \in 1..Len(croppedImages[r])
  /\ ~IsSettled(croppedImages[r][i])
  /\ LET filePath == croppedImages[r][i].filePath
     IN IF filePath \notin disk \/ ~sharpOk
        THEN DoneFailed(r)
        ELSE LET images == SettleAt(croppedImages[r], i, squareImage[filePath])
                 allSettled == \A j \in 1..Len(images) : IsSettled(images[j])
                 first == NextPostable(images, 1)
             IN /\ croppedImages' = [croppedImages EXCEPT ![r] = images]
                /\ IF allSettled
                   THEN /\ imgIdx' = [imgIdx EXCEPT ![r] = first]
                        /\ pc' = [pc EXCEPT
                                    ![r] = IF first > Len(images) THEN "put" ELSE "post"]
                   ELSE UNCHANGED <<imgIdx, pc>>
                /\ UNCHANGED <<session, disk, productId, filesToDelete, posted, reply,
                               logged>>

\* one cropImageToSquare settles. sharpOk: whether sharp could process the
\* file; it cannot when the file is gone. When sharp fails the original is
\* read instead, and when that fails too the promise rejects.
DoneCropSettled(r, i, sharpOk) ==
  /\ pc[r] = "crop"
  /\ i \in 1..Len(croppedImages[r])
  /\ ~IsSettled(croppedImages[r][i])
  /\ LET filePath == croppedImages[r][i].filePath
     IN IF filePath \notin disk
        THEN DoneFailed(r)
        ELSE LET image == IF sharpOk THEN squareImage[filePath]
                          ELSE rawImage[filePath]
                 images == SettleAt(croppedImages[r], i, image)
                 allSettled == \A j \in 1..Len(images) : IsSettled(images[j])
                 first == NextPostable(images, 1)
             IN /\ croppedImages' = [croppedImages EXCEPT ![r] = images]
                /\ IF allSettled
                   THEN /\ imgIdx' = [imgIdx EXCEPT ![r] = first]
                        /\ pc' = [pc EXCEPT
                                    ![r] = IF first > Len(images) THEN "put" ELSE "post"]
                   ELSE UNCHANGED <<imgIdx, pc>>
                /\ UNCHANGED <<session, disk, productId, filesToDelete, posted, reply,
                               logged>>

\* a variant of the upload loop that logs a failed POST and goes on with
\* the next image
DonePostedContinuing(r, ok) ==
  /\ pc[r] = "post"
  /\ LET images == croppedImages[r]
         nxt == NextPostable(images, imgIdx[r] + 1)
     IN /\ posted' = [posted EXCEPT
                        ![r] = IF ok
                               THEN Append(@, ImagePost(productId[r], images[imgIdx[r]]))
                               ELSE @]
        /\ imgIdx' = [imgIdx EXCEPT ![r] = nxt]
        /\ pc' = [pc EXCEPT ![r] = IF nxt > Len(images) THEN "put" ELSE "post"]
        /\ UNCHANGED <<session, disk, productId, filesToDelete, croppedImages,
                       reply, logged>>

\* the catalog answers the POST of the image at imgIdx. ok: whether
\* shopifyRest returned; it throws on a network error or a non-2xx status
DonePosted(r, ok) ==
  /\ pc[r] = "post"
  /\ IF ~ok
     THEN DoneFailed(r)
     ELSE LET images == croppedImages[r]
              nxt == NextPostable(images, imgIdx[r] + 1)
          IN /\ posted' = [posted EXCEPT
                             ![r] = Append(@, ImagePost(productId[r], images[imgIdx[r]]))]
             /\ imgIdx' = [imgIdx EXCEPT ![r] = nxt]
             /\ pc' = [pc EXCEPT ![r] = IF nxt > Len(images) THEN "put" ELSE "post"]
             /\ UNCHANGED <<session, disk, productId, filesToDelete, croppedImages,
                            reply, logged>>

\* a variant of uploadImagesToProduct without the try around the PUT: a
\* failed status update reaches the catch block of /api/done
DoneStatusPutThrowing(r, ok) ==
  /\ pc[r] = "put"
  /\ IF ~ok
     THEN DoneFailed(r)
     ELSE /\ pc' = [pc EXCEPT ![r] = "publish"]
          /\ UNCHANGED <<session, disk, productId, filesToDelete, croppedImages,
                         imgIdx, posted, reply, logged>>

\* the catalog answers the PUT that sets the product active; a failure is
\* caught and logged
DoneStatusPut(r, ok) ==
  /\ pc[r] = "put"
  /\ pc' = [pc EXCEPT ![r] = "publish"]
  /\ logged' = [logged EXCEPT ![r] = IF ok THEN @ ELSE @ \cup {"status"}]
  /\ UNCHANGED <<session, disk, productId, filesToDelete, croppedImages,
                 imgIdx, posted, reply>>

\* a variant of the handler's end that clears the selection and forgets
\* the queue
DonePublishedKeepingQueue(r, ok, unlinkFails) ==
  /\ pc[r] = "publish"
  /\ unlinkFails \subseteq (Range(filesToDelete[r]) \cap disk)
  /\ disk' = disk \ (Range(filesToDelete[r]) \ unlinkFails)
  /\ currentProduct' = Null
  /\ UNCHANGED <<queuedFiles, logged>>
  /\ Return(r, Ok)

\* a variant of the handler's end in which a failed unlink is thrown out of
\* deleteUploadedFiles: the files before it are deleted, the handler answers
\* 500 and the session stays
DonePublishedThrowing(r, ok, unlinkFails) ==
  /\ pc[r] = "publish"
  /\ unlinkFails \subseteq (Range(filesToDelete[r]) \cap disk)
  /\ disk' = disk \ (Range(filesToDelete[r]) \ unlinkFails)
  /\ logged' = [logged EXCEPT ![r] = @ \cup (IF ok THEN {} ELSE {"publish"})]
  /\ IF unlinkFails = {}
     THEN /\ currentProduct' = Null
          /\ queuedFiles' = <<>>
          /\ Return(r, Ok)
     ELSE /\ UNCHANGED session
          /\ Return(r, Response(500, "Upload or publish failed"))

\* deleteUploadedFiles: every file that exists is unlinked, except those
\* whose unlink throws
deleteUploadedFiles(files, unlinkFails) == disk \ (Range(files) \ unlinkFails)

\* publishProductToDefaultSalesChannels settles (its failures are caught
\* and logged), uploadImagesToProduct returns, and the handler runs to its
\* end: the originals are deleted, the session is cleared
DonePublished(r, ok, unlinkFails) ==
  /\ pc[r] = "publish"
  /\ unlinkFails \subseteq (Range(filesToDelete[r]) \cap disk)
  /\ disk' = deleteUploadedFiles(filesToDelete[r], unlinkFails)
  /\ logged' = [logged EXCEPT
                  ![r] = @ \cup (IF ok THEN {} ELSE {"publish"})
                           \cup (IF unlinkFails = {} THEN {} ELSE {"unlink"})]
  /\ currentProduct' = Null
  /\ queuedFiles' = <<>>
  /\ Return(r, Ok)

(***************************************************************************)
(* Specification.                                                          *)
(***************************************************************************)
Next ==
  \/ \E body \in SelectBodies : SelectProduct(body)
  \/ \E filePath \in WatchPaths : FileDropped(filePath)
  \/ \E filePath \in WatchPaths : FileReported(filePath)
  \/ \E relPath \in RelInputs, unlinkOk \in BOOLEAN : RemovePhoto(relPath, unlinkOk)
  \/ \E order \in OrderInputs : ReorderPhotos(order)
  \/ \E r \in Reqs : DoneStart(r)
  \/ \E r \in Reqs, i \in 1..MaxQueue, sharpOk \in BOOLEAN : DoneCropSettled(r, i, sharpOk)
  \/ \E r \in Reqs, ok \in BOOLEAN : DonePosted(r, ok)
  \/ \E r \in Reqs, ok \in BOOLEAN : DoneStatusPut(r, ok)
  \/ \E r \in Reqs, ok \in BOOLEAN, unlinkFails \in SUBSET WatchPaths :
        DonePublished(r, ok, unlinkFails)

Spec == Init /\ [][Next]_vars


(***************************************************************************)
(* Properties.                                                             *)
(***************************************************************************)
\* a step of request r's /api/done handler other than its successful end
DoneStepBeforeSuccess(r) ==
  \/ DoneStart(r)
  \/ \E i \in 1..MaxQueue, sharpOk \in BOOLEAN : DoneCropSettled(r, i, sharpOk)
  \/ \E ok \in BOOLEAN : DonePosted(r, ok)
  \/ \E ok \in BOOLEAN : DoneStatusPut(r, ok)

\* C1: when an image POST throws, the handler answers 500 and is ready for a
\* retry, and neither that step nor any earlier step of the handler changes
\* currentProduct or queuedFiles: they are what they were when the request
\* arrived.
C1_UploadFailureKeepsSession ==
  [][\A r \in Reqs :
       /\ DonePosted(r, FALSE) =>
            /\ reply'[r].status = 500
            /\ pc'[r] = "idle"
       /\ DoneStepBeforeSuccess(r) =>
            /\ currentProduct' = currentProduct
            /\ queuedFiles' = queuedFiles]_vars

\* a /api/done has just failed and the selection and its queue are still
\* there, every queued file in place
C1_Witness ==
  \E r \in Reqs :
    /\ reply[r].status = 500
    /\ pc[r] = "idle"
    /\ currentProduct # Null
    /\ Len(queuedFiles) = 2
    /\ Range(queuedFiles) \subseteq disk

\* C2: the k-th image the catalog accepted from a /api/done is made from the
\* k-th file of the queue as it was when that request arrived.
C2_UploadsFollowQueueOrder ==
  \A r \in Reqs :
    /\ Len(posted[r]) <= Len(filesToDelete[r])
    /\ \A k \in 1..Len(posted[r]) :
         posted[r][k].attachment.of = filesToDelete[r][k]

\* two different files have been posted by one request
C2_Witness ==
  \E r \in Reqs :
    /\ Len(posted[r]) = 2
    /\ posted[r][1].attachment.of # posted[r][2].attachment.of

\* C3: the step by which a /api/done answers ok leaves currentProduct null
\* and queuedFiles empty.
C3_SuccessClearsSession ==
  [][\A r \in Reqs :
       (pc[r] # "idle" /\ reply'[r] = Ok) =>
          /\ currentProduct' = Null
          /\ queuedFiles' = <<>>]_vars

\* a /api/done has answered ok and the session is cleared
C3_Witness ==
  \E r \in Reqs :
    /\ reply[r] = Ok
    /\ pc[r] = "idle"
    /\ currentProduct = Null
    /\ queuedFiles = <<>>

\* C4: when another product was selected while a /api/done was in flight,
\* the step that completes that request leaves currentProduct and
\* queuedFiles as they are.
C4_InFlightDoneKeepsNewSelection ==
  [][\A r \in Reqs :
       ( /\ pc[r] # "idle"
         /\ pc'[r] = "idle"
         /\ currentProduct # Null
         /\ currentProduct[1].id # productId[r] ) =>
          /\ currentProduct' = currentProduct
          /\ queuedFiles' = queuedFiles]_vars

\* C5: a /api/done captures the selected product's id and the queue when it
\* arrives, keeps them while it is in flight, and posts only to that product
\* and only images made from those files.
C5_DoneUsesItsSnapshot ==
  /\ [](\A r \in Reqs : \A k \in 1..Len(posted[r]) :
          /\ posted[r][k].product = productId[r]
          /\ posted[r][k].attachment.of \in Range(filesToDelete[r]))
  /\ [][\A r \in Reqs :
          /\ (pc[r] = "idle" /\ pc'[r] # "idle") =>
                /\ productId'[r] = currentProduct[1].id
                /\ filesToDelete'[r] = queuedFiles
          /\ (pc[r] # "idle" /\ pc'[r] # "idle") =>
                /\ productId'[r] = productId[r]
                /\ filesToDelete'[r] = filesToDelete[r]]_vars

\* a request has posted an image while the selection is another product
C5_Witness ==
  \E r \in Reqs :
    /\ posted[r] # <<>>
    /\ currentProduct # Null
    /\ currentProduct[1].id # productId[r]

\* C6: with a product selected, a notification for a path that is already
\* queued leaves the queue as it is.
C6_DuplicateNotificationIgnored ==
  [][\A filePath \in WatchPaths :
       ( /\ FileReported(filePath)
         /\ currentProduct # Null
         /\ filePath \in Range(queuedFiles) ) =>
          queuedFiles' = queuedFiles]_vars

\* C7: no path is queued twice.
C7_NoDuplicateInQueue ==
  \A i, j \in 1..Len(queuedFiles) :
    i # j => queuedFiles[i] # queuedFiles[j]

\* the resolved path lies in the watched folder
IsInsideWatchDir(absPath) ==
  LET root == WATCH_DIR \o <<"/">>
  IN Len(absPath) > Len(root) /\ SubSeq(absPath, 1, Len(root)) = root

\* C8: a remove-photo request whose path resolves outside the watched
\* folder is rejected, and changes neither the queue nor the files.
C8_RemoveRejectsTraversal ==
  [][\A relPath \in RelInputs \ {<<>>}, unlinkOk \in BOOLEAN :
       ( /\ RemovePhoto(relPath, unlinkOk)
         /\ ~IsInsideWatchDir(relToAbs[relPath]) ) =>
          /\ RemovePhotoRes(relPath).status \in {400, 403}
          /\ queuedFiles' = queuedFiles
          /\ disk' = disk]_vars

\* the path names no entry of the queue
IsNotQueued(relPath) ==
  \A i \in 1..Len(queuedFiles) :
    normalized[queuedFiles[i]] # normalized[relToAbs[relPath]]

\* C9: a remove-photo request for a path that is not queued is answered 404
\* and leaves the queue as it is.
C9_RemoveUnqueuedIsNotFound ==
  [][\A relPath \in RelInputs \ {<<>>}, unlinkOk \in BOOLEAN :
       ( /\ RemovePhoto(relPath, unlinkOk)
         /\ IsInsideWatchDir(relToAbs[relPath])
         /\ IsNotQueued(relPath) ) =>
          /\ RemovePhotoRes(relPath).status = 404
          /\ queuedFiles' = queuedFiles]_vars

\* C10: while no product is selected a notification leaves the queue empty,
\* and the select that ends such a period starts with an empty queue: the
\* files reported before it are not queued.
C10_NoSelectionNoQueue ==
  [][/\ ( /\ currentProduct = Null
          /\ \E filePath \in WatchPaths :
               FileDropped(filePath) \/ FileReported(filePath) ) =>
            /\ Len(queuedFiles) = 0
            /\ Len(queuedFiles') = 0
     /\ (currentProduct = Null /\ currentProduct' # Null) =>
            queuedFiles' = <<>>]_vars

\* image files were reported and no product has been selected yet (no
\* /api/done has been answered, so currentProduct was never set): none of
\* them is queued
C10_Witness ==
  /\ currentProduct = Null
  /\ queuedFiles = <<>>
  /\ {FileA, FileB} \subseteq disk
  /\ \A r \in Reqs : pc[r] = "idle" /\ reply[r] = NoResponse

\* C11: a select-product that is answered ok leaves queuedFiles empty,
\* whatever it held, and makes the product of the request the selection: the
\* id of the body, its title or "" when it has none.
C11_SelectResetsQueue ==
  [][\A body \in SelectBodies :
       (SelectProduct(body) /\ SelectProductRes(body) = Ok) =>
          /\ queuedFiles' = <<>>
          /\ currentProduct' # Null
          /\ currentProduct'[1].id = body["id"]
          /\ currentProduct'[1].title =
               (IF "title" \in DOMAIN body THEN body["title"] ELSE "")]_vars

\* product 42 is selected with an empty queue although both image files
\* were queued for product 43 when the /api/done still in flight arrived:
\* the select of 42 emptied the queue
C11_Witness ==
  \E r \in Reqs :
    /\ pc[r] # "idle"
    /\ productId[r] = 43
    /\ Len(filesToDelete[r]) = 2
    /\ Range(filesToDelete[r]) \subseteq disk
    /\ currentProduct # Null
    /\ currentProduct[1].id = 42
    /\ currentProduct[1].title = "Red Hat"
    /\ queuedFiles = <<>>

\* the queue has an entry at the path the order entry resolves to
IsQueuedPath(abs, queue) ==
  \E j \in 1..Len(queue) : normalized[queue[j]] = normalized[abs]

\* the paths of the order array that are in the queue, in the listed order
ListedQueued(order, queue) ==
  LET InQueue(abs) == IsQueuedPath(abs, queue)
  IN SelectSeq([i \in 1..Len(order) |-> relToAbs[order[i]]], InQueue)

\* the queue entries the order array does not name, in their queue order
Unlisted(order, queue) ==
  LET NotNamed(p) ==
        \A i \in 1..Len(order) : normalized[relToAbs[order[i]]] # normalized[p]
  IN SelectSeq(queue, NotNamed)

\* C12: a reorder-photos whose order array names at least one queued path
\* makes the queue the listed paths that are queued, in the listed order,
\* followed by the queue entries that are not listed, in their previous order.
C12_ReorderListedThenRest ==
  [][\A order \in OrderArrays :
       (ReorderPhotos(order) /\ ListedQueued(order, queuedFiles) # <<>>) =>
          queuedFiles' = ListedQueued(order, queuedFiles)
                           \o Unlisted(order, queuedFiles)]_vars

\* C13: in every state, a reorder-photos whose order array is empty, or names
\* no path of the queue, is answered 400, and no step the handler can take on
\* it changes the queue.
C13_ReorderNoMatchRejected ==
  \A order \in OrderArrays :
    ListedQueued(order, queuedFiles) = <<>> =>
      /\ ReorderPhotosRes(order).status = 400
      /\ ENABLED ReorderPhotos(order)
      /\ ~ENABLED (ReorderPhotos(order) /\ queuedFiles' # queuedFiles)

\* a product is selected and a.jpg is its queue; b.PNG is in the watched
\* folder and not queued, so the arrays [] and ["b.PNG"] match nothing
C13_Witness ==
  /\ currentProduct # Null
  /\ queuedFiles = <<FileA>>
  /\ FileB \in disk
  /\ ListedQueued(<<>>, queuedFiles) = <<>>
  /\ ListedQueued(<<NameB>>, queuedFiles) = <<>>
  /\ ReorderPhotosRes(<<NameB>>).status = 400

\* C14: a /api/done that arrives with no product selected is answered 400
\* "No product selected"; one that arrives with a product selected and an
\* empty queue is answered 400 "No files queued". In both cases the handler
\* returns at once: no crop is started, nothing is posted, no file is deleted,
\* and currentProduct and queuedFiles stay as they are.
C14_DonePreconditions ==
  [][\A r \in Reqs :
       (DoneStart(r) /\ (currentProduct = Null \/ Len(queuedFiles) = 0)) =>
          /\ reply'[r] = (IF currentProduct = Null
                          THEN Response(400, "No product selected")
                          ELSE Response(400, "No files queued"))
          /\ pc'[r] = "idle"
          /\ croppedImages'[r] = <<>>
          /\ posted'[r] = <<>>
          /\ disk' = disk
          /\ currentProduct' = currentProduct
          /\ queuedFiles' = queuedFiles]_vars

\* a /api/done was answered "No files queued": a product is selected, its
\* queue is empty, and the image files in the watched folder are untouched
C14_Witness ==
  \E r \in Reqs :
    /\ reply[r] = Response(400, "No files queued")
    /\ pc[r] = "idle"
    /\ currentProduct # Null
    /\ queuedFiles = <<>>
    /\ {FileA, FileB} \subseteq disk

\* the body has no id, or an id that is empty
HasNoId(body) == ~("id" \in DOMAIN body) \/ body["id"] = 0

\* C15: in every state, a select-product whose body has no id or an empty
\* one is answered 400, and no step the handler can take on it changes
\* currentProduct or queuedFiles.
C15_SelectWithoutIdRejected ==
  \A body \in SelectBodies :
    HasNoId(body) =>
      /\ SelectProductRes(body).status = 400
      /\ ENABLED SelectProduct(body)
      /\ ~ENABLED (SelectProduct(body) /\ session' # session)

\* product 43 is selected and both image files are queued for it: the state
\* in which a select without an id must leave the selection and the queue
C15_Witness ==
  /\ currentProduct # Null
  /\ currentProduct[1].id = 43
  /\ queuedFiles = <<FileA, FileB>>
  /\ \E body \in SelectBodies : HasNoId(body) /\ ~("id" \in DOMAIN body)
  /\ \E body \in SelectBodies : HasNoId(body) /\ "id" \in DOMAIN body

\* C16 as stated: whenever sharp fails on a queued file, the file's promise
\* still yields an image and the /api/done goes on.
C16_NormalizerFailureNeverAborts ==
  [][\A r \in Reqs, i \in 1..MaxQueue :
       DoneCropSettled(r, i, FALSE) => pc'[r] # "idle"]_vars

\* C16, for originals that can be read: when sharp fails on a queued file
\* that is still in the watched folder, the file's promise yields the file's
\* own bytes under its own name and the /api/done goes on; and once the
\* upload loop of a /api/done has ended, one image per captured file has been
\* posted, the k-th being the image made from the k-th file, raw or squared.
C16_ReadableOriginalUploadedRaw ==
  /\ [][\A r \in Reqs, i \in 1..MaxQueue :
          ( /\ DoneCropSettled(r, i, FALSE)
            /\ croppedImages[r][i].filePath \in disk ) =>
             /\ pc'[r] # "idle"
             /\ croppedImages'[r][i].buffer =
                  [bytes |-> "raw", of |-> croppedImages[r][i].filePath]
             /\ croppedImages'[r][i].filename =
                  basename(croppedImages[r][i].filePath)]_vars
  /\ [](\A r \in Reqs :
          pc[r] \in {"put", "publish"} =>
            /\ Len(posted[r]) = Len(filesToDelete[r])
            /\ \A k \in 1..Len(posted[r]) :
                 /\ posted[r][k].attachment = croppedImages[r][k].buffer
                 /\ posted[r][k].attachment.of = filesToDelete[r][k])

\* the upload loop of a /api/done has ended with two images posted: the raw
\* bytes of the first queued file, on which sharp failed, and the squared
\* second file
C16_Witness ==
  \E r \in Reqs :
    /\ pc[r] = "put"
    /\ Len(filesToDelete[r]) = 2
    /\ Len(posted[r]) = 2
    /\ posted[r][1].attachment = [bytes |-> "raw", of |-> filesToDelete[r][1]]
    /\ posted[r][2].attachment = [bytes |-> "square", of |-> filesToDelete[r][2]]

\* C17: once the image POSTs of a /api/done have all succeeded, a failure of
\* the status PUT or of the publication does not fail the request: after a
\* failed PUT the handler goes on to the publication, and the handler's last
\* step answers ok and leaves currentProduct null and queuedFiles empty
\* whether or not the PUT and the publication succeeded.
C17_PublishFailureIsNotFatal ==
  [][\A r \in Reqs :
       /\ DoneStatusPut(r, FALSE) =>
            /\ pc'[r] = "publish"
            /\ reply'[r] = NoResponse
       /\ (\E unlinkFails \in SUBSET WatchPaths :
             DonePublished(r, FALSE, unlinkFails)) =>
            /\ reply'[r] = Ok
            /\ currentProduct' = Null
            /\ queuedFiles' = <<>>
       /\ (pc[r] = "publish" /\ "status" \in logged[r] /\ pc'[r] # "publish") =>
            /\ reply'[r] = Ok
            /\ currentProduct' = Null
            /\ queuedFiles' = <<>>]_vars

\* a /api/done has answered ok and cleared the session although both the
\* status PUT and the publication failed
C17_Witness ==
  \E r \in Reqs :
    /\ reply[r] = Ok
    /\ pc[r] = "idle"
    /\ {"status", "publish"} \subseteq logged[r]
    /\ currentProduct = Null
    /\ queuedFiles = <<>>

\* C18: when an unlink of deleteUploadedFiles fails after a successful
\* upload, the /api/done still answers ok and leaves currentProduct null and
\* queuedFiles empty; the files whose unlink failed stay where they are.
C18_DeleteFailureIsNotFatal ==
  [][\A r \in Reqs : \A unlinkFails \in (SUBSET WatchPaths) \ {{}} :
       (\E ok \in BOOLEAN : DonePublished(r, ok, unlinkFails)) =>
          /\ reply'[r] = Ok
          /\ pc'[r] = "idle"
          /\ currentProduct' = Null
          /\ queuedFiles' = <<>>
          /\ unlinkFails \subseteq disk']_vars

\* a /api/done has answered ok and cleared the session although an unlink
\* failed: a.jpg was uploaded and is still in the watched folder
C18_Witness ==
  \E r \in Reqs :
    /\ reply[r] = Ok
    /\ pc[r] = "idle"
    /\ "unlink" \in logged[r]
    /\ FileA \in disk
    /\ currentProduct = Null
    /\ queuedFiles = <<>>

C20_ReorderKeepsAppended ==
  [][/\ \A filePath \in WatchPaths :
          ( /\ FileDropped(filePath) \/ FileReported(filePath)
            /\ currentProduct # Null
            /\ toLowerCase(extname(filePath)) \in allowedExts ) =>
             queuedFiles' = Append(queuedFiles, filePath)
     /\ \A order \in OrderArrays :
          ReorderPhotos(order) =>
             Range(queuedFiles) \subseteq Range(queuedFiles')]_vars


(***************************************************************************)
(* The same program under the scheduling node guarantees: a started        *)
(* cropImageToSquare settles, because sharp and fs.promises.readFile work  *)
(* on local files and always call back. Nothing makes the catalog answer a *)
(* request of shopifyRest: it passes no timeout to fetch and sets no timer *)
(* of its own, so DonePosted, DoneStatusPut and DonePublished happen only  *)
(* if the catalog answers.                                                 *)
(***************************************************************************)
CropSettles ==
  \E r \in Reqs, i \in 1..MaxQueue, sharpOk \in BOOLEAN : DoneCropSettled(r, i, sharpOk)

SpecLive == Init /\ [][Next]_vars /\ WF_vars(CropSettles)

\* C21: a /api/done that waits for the catalog's answer to an image POST
\* does not wait for ever: it gets past that POST, by the answer or by giving
\* up, also when the catalog never answers.
C21_UploadWaitEnds ==
  \A r \in Reqs : (pc[r] = "post") ~> (pc[r] # "post")


\* no path is named twice
NoRepeat(s) == \A i, j \in 1..Len(s) : i # j => s[i] # s[j]

\* C22: in every state in which a /api/done is in flight, at whatever await,
\* the other handlers can run and take effect while it stays in flight: a
\* select-product replaces the selection, an 'add' notification appends to the
\* queue, a remove-photo takes its path out of the queue, a reorder-photos
\* that matches is carried out, and current-product reports the session as
\* it is now.
C22_OthersRunDuringDone ==
  \A r \in Reqs :
    pc[r] # "idle" =>
      /\ \A body \in SelectBodies :
           ~HasNoId(body) =>
             ENABLED ( /\ SelectProduct(body)
                       /\ currentProduct'[1].id = body["id"]
                       /\ queuedFiles' = <<>>
                       /\ pc' = pc )
      /\ \A filePath \in WatchPaths \cap disk :
           ( /\ currentProduct # Null
             /\ Len(queuedFiles) < MaxQueue
             /\ toLowerCase(extname(filePath)) \in allowedExts ) =>
             ENABLED ( /\ FileReported(filePath)
                       /\ queuedFiles' = Append(queuedFiles, filePath)
                       /\ pc' = pc )
      /\ \A relPath \in RelInputs \ {<<>>} :
           ~IsNotQueued(relPath) =>
             ENABLED ( /\ RemovePhoto(relPath, TRUE)
                       /\ relToAbs[relPath] \notin Range(queuedFiles')
                       /\ pc' = pc )
      /\ \A order \in OrderArrays :
           (NoRepeat(order) /\ ListedQueued(order, queuedFiles) # <<>>) =>
             ENABLED ( /\ ReorderPhotos(order)
                       /\ SubSeq(queuedFiles', 1, Len(ListedQueued(order, queuedFiles)))
                            = ListedQueued(order, queuedFiles)
                       /\ pc' = pc )
      /\ CurrentProductRes.product = currentProduct
      /\ CurrentProductRes.queuedCount = Len(queuedFiles)

\* a /api/done for product 43 waits for the catalog's answer to its POST of
\* b.PNG; meanwhile product 42 was selected and a.jpg was queued for it
C22_Witness ==
  \E r \in Reqs :
    /\ pc[r] = "post"
    /\ productId[r] = 43
    /\ filesToDelete[r] = <<FileB>>
    /\ currentProduct # Null
    /\ currentProduct[1].id = 42
    /\ queuedFiles = <<FileA>>
    /\ CurrentProductRes.queuedCount = 1


(***************************************************************************)
(* GET /api/queued-photos                                                  *)
(***************************************************************************)
\* the number of leading segments two segment lists share
RECURSIVE CommonPrefix(_, _)
CommonPrefix(a, b) ==
  IF a = <<>> \/ b = <<>> \/ Head(a) # Head(b) THEN 0
  ELSE 1 + CommonPrefix(Tail(a), Tail(b))

\* path.relative(from, to) (posix) for absolute paths: one ".." for every
\* segment of `from` below the common ancestor, then the rest of `to`
relative(from, to) ==
  LET f == Segments(resolve(from, <<>>))
      t == Segments(resolve(to, <<>>))
      k == CommonPrefix(f, t)
  IN JoinSegs([i \in 1..(Len(f) - k) |-> <<".", ".">>] \o SubSeq(t, k + 1, Len(t)))

\* .replace(/\\/g, '/')
SlashForward(s) == [i \in 1..Len(s) |-> IF s[i] = "\\" THEN "/" ELSE s[i]]

\* encodeURIComponent on the characters of the file names: letters, digits
\* and - _ . ! ~ * ' ( ) stay, "/" and " " are percent-encoded
RECURSIVE encodeURIComponent(_)
encodeURIComponent(s) ==
  IF s = <<>> THEN <<>>
  ELSE (IF Head(s) = "/" THEN <<"%", "2", "F">>
        ELSE IF Head(s) = " " THEN <<"%", "2", "0">>
        ELSE <<Head(s)>>) \o encodeURIComponent(Tail(s))

PreviewPrefix ==
  <<"/", "p", "h", "o", "t", "o", "-", "p", "r", "e", "v", "i", "e", "w",
    "?", "f", "i", "l", "e", "=">>

\* the entry of one queued path, tabulated over the paths the watcher can
\* have queued
QueuedPhoto(filePath) ==
  LET relPath == SlashForward(relative(WATCH_DIR, filePath))
  IN [name |-> basename(filePath),
      relPath |-> relPath,
      url |-> PreviewPrefix \o encodeURIComponent(relPath)]

queuedPhoto == [filePath \in NotifiedPaths |-> QueuedPhoto(filePath)]

\* a variant of the listing that leaves out the entries whose file is gone
QueuedPhotosResExistingOnly ==
  LET existing == SelectSeq(queuedFiles, LAMBDA filePath : filePath \in disk)
  IN [photos |-> [i \in 1..Len(existing) |-> queuedPhoto[existing[i]]]]

\* the body of the response: queuedFiles.map(...), no look at the disk
QueuedPhotosRes ==
  [photos |-> [i \in 1..Len(queuedFiles) |-> queuedPhoto[queuedFiles[i]]]]

(***************************************************************************)
(* The watcher with every kind of file name: products are selected, files  *)
(* appear in the watched folder, are reported, and disappear.              *)
(***************************************************************************)
NextWatch ==
  \/ \E body \in SelectBodies : SelectProduct(body)
  \/ \E filePath \in NotifiedPaths : FileDropped(filePath)
  \/ \E filePath \in NotifiedPaths : FileReported(filePath)
  \/ \E filePath \in NotifiedPaths : FileVanished(filePath)

SpecWatch == Init /\ [][NextWatch]_vars


\* the four extensions the watcher is said to accept
PhotoSuffixes == { <<".", "j", "p", "g">>, <<".", "j", "p", "e", "g">>,
                   <<".", "p", "n", "g">>, <<".", "h", "e", "i", "c">> }

\* the file name of p ends, in any letter case, with one of the four
\* extensions and has at least one character before it
HasPhotoSuffix(p) ==
  \E e \in PhotoSuffixes :
    /\ Len(p) > Len(e) + 1
    /\ toLowerCase(SubSeq(p, Len(p) - Len(e) + 1, Len(p))) = e
    /\ p[Len(p) - Len(e)] # "/"

\* a notification of the watcher for filePath
Notified(filePath) == FileDropped(filePath) \/ FileReported(filePath)

\* C23: a notification changes the queue only for a file whose extension is,
\* in any letter case, .jpg, .jpeg, .png or .heic; such a file is enqueued
\* under an active selection, and a notification for any other file is
\* handled without an error and leaves the selection and the queue as they
\* were.
C23_OnlyPhotosAreQueued ==
  /\ [][\A filePath \in NotifiedPaths :
          Notified(filePath) =>
            /\ (queuedFiles' # queuedFiles => HasPhotoSuffix(filePath))
            /\ (~HasPhotoSuffix(filePath) => UNCHANGED <<session, locals>>)
            /\ (HasPhotoSuffix(filePath) /\ currentProduct # Null
                  => filePath \in Range(queuedFiles'))]_vars
  /\ [](\A filePath \in NotifiedPaths :
          (filePath \in disk /\ ~HasPhotoSuffix(filePath))
            => ENABLED FileReported(filePath))

C23_Witness ==
  /\ currentProduct # Null
  /\ queuedFiles = <<FileD, FileC>>
  /\ {FileE, FileJ, FileG, FileN} \subseteq disk

\* C24: under an active selection an accepted notification puts the path at
\* the end of the queue: the queue grows by one, the entries already queued
\* keep their positions, and the new last entry is the reported path.
C24_AcceptedFileGoesLast ==
  [][\A filePath \in NotifiedPaths :
       (Notified(filePath) /\ currentProduct # Null /\ HasPhotoSuffix(filePath))
         => /\ Len(queuedFiles') = Len(queuedFiles) + 1
            /\ \A i \in 1..Len(queuedFiles) : queuedFiles'[i] = queuedFiles[i]
            /\ queuedFiles'[Len(queuedFiles')] = filePath]_vars

C24_Witness ==
  /\ currentProduct # Null
  /\ queuedFiles = <<FileB, FileA>>
  /\ FileC \in disk


(***************************************************************************)
(* The archiving revision of /api/done: after the upload the originals are *)
(* moved into UPLOADED_DIR/<sanitized product title>/.                     *)
(***************************************************************************)
\* the longest title drawn character by character
MaxTitle == 3

\* UPLOADED_DIR: path.join(__dirname, 'Uploaded Photos'), here "/u"
UPLOADED_DIR == <<"/", "u">>

\* path.join(a, b)
join(a, b) == normalize(a \o <<"/">> \o b)

\* the characters titles are drawn from: a letter, a dot, two kinds of white
\* space and two characters the expression [<>:"/\\|?*] matches
TitleChars == {"a", ".", " ", "\t", "/", "?"}

Pad(n) == [i \in 1..n |-> "a"]

\* titles around the cap of 60 characters, some with characters that are
\* removed or collapsed before the cap applies
LongTitles ==
  {Pad(n) : n \in 59..61}
    \cup {Pad(n) \o <<"*", " ", " ", "b", " ">> : n \in 56..58}
    \cup {<<" ", "<">> \o Pad(59) \o <<" ", "b", "c">>}

TitleStrings == UNION {[1..n -> TitleChars] : n \in 0..MaxTitle} \cup LongTitles

\* the values product.title can hold: a string, a number, or no title at
\* all (the field is absent)
TitleValues == {[string |-> s] : s \in TitleStrings} \cup {[number |-> 0], [number |-> 7]}

ArchiveProducts == {[id |-> 42]} \cup {[id |-> 42, title |-> t] : t \in TitleValues}

\* the class \s, and the white space trim() removes
IsSpace(c) == c \in {" ", "\t", "\n", "\r"}

IsIllegal(c) == c \in {"<", ">", ":", "\"", "/", "\\", "|", "?", "*"}

IsLegal(c) == ~IsIllegal(c)

\* name.replace(/[<>:"/\\|?*]/g, '')
StripIllegal(s) == SelectSeq(s, IsLegal)

\* cleaned.replace(/\s+/g, ' '): every run of white space becomes one space
CollapseSpace(s) ==
  LET ends == SelectSeq([k \in 1..Len(s) |-> k],
                        LAMBDA k : ~IsSpace(s[k]) \/ k = Len(s) \/ ~IsSpace(s[k + 1]))
  IN [n \in 1..Len(ends) |-> IF IsSpace(s[ends[n]]) THEN " " ELSE s[ends[n]]]

\* String.prototype.trim
trim(s) ==
  LET inked == {i \in 1..Len(s) : ~IsSpace(s[i])}
  IN IF inked = {} THEN <<>>
     ELSE SubSeq(s, CHOOSE i \in inked : \A j \in inked : i <= j,
                    CHOOSE i \in inked : \A j \in inked : j <= i)

\* String.prototype.slice(0, n)
slice0(s, n) == SubSeq(s, 1, IF Len(s) < n THEN Len(s) ELSE n)

Placeholder == <<"p", "r", "o", "d", "u", "c", "t">>

\* `!name || typeof name !== 'string'` for product.title
IsUsableTitle(product) ==
  /\ "title" \in DOMAIN product
  /\ "string" \in DOMAIN product.title
  /\ product.title.string # <<>>

\* a variant of the function without the cap
sanitizeFolderNameUncapped(product) ==
  IF ~IsUsableTitle(product) THEN Placeholder
  ELSE LET cleaned == trim(CollapseSpace(StripIllegal(product.title.string)))
       IN IF cleaned = <<>> THEN Placeholder ELSE cleaned

\* a variant of the function that trims before it strips
sanitizeFolderNameTrimFirst(product) ==
  IF ~IsUsableTitle(product) THEN Placeholder
  ELSE LET cleaned == StripIllegal(trim(CollapseSpace(product.title.string)))
       IN slice0(cleaned, 60)

\* sanitizeFolderName(product.title)
sanitizeFolderName(product) ==
  IF ~IsUsableTitle(product) THEN Placeholder
  ELSE LET cleaned == trim(CollapseSpace(StripIllegal(product.title.string)))
           named == IF cleaned = <<>> THEN Placeholder ELSE cleaned
       IN IF Len(named) > 60 THEN slice0(named, 60) ELSE named

\* archiveUploadedFiles(product, files): the folder is created, then every
\* file that still exists is renamed into it; a failing mkdir ends the
\* function, a failing rename is logged and the loop goes on
archiveUploadedFiles(product, files, mkdirOk, renameFails) ==
  IF product = Null \/ files = <<>> THEN disk
  ELSE LET destDir == join(UPLOADED_DIR, sanitizeFolderName(product))
           moved == (Range(files) \cap disk) \ renameFails
       IN IF ~mkdirOk THEN disk
          ELSE ((disk \ moved) \cup {destDir})
                 \cup {join(destDir, basename(filePath)) : filePath \in moved}

\* the array the upload loop walks, and whether it still is the array the
\* variable queuedFiles refers to
UploadView(files, live) == [files |-> files, live |-> live]

\* the upload of the archiving /api/done has succeeded: the originals are
\* archived, the session is reset and the request is answered
DoneArchived(r, mkdirOk, renameFails) ==
  /\ pc[r] = "archive"
  /\ disk' = archiveUploadedFiles(currentProduct, filesToDelete[r], mkdirOk, renameFails)
  /\ currentProduct' = Null
  /\ queuedFiles' = <<>>
  /\ pc' = [pc EXCEPT ![r] = "idle"]
  /\ reply' = [reply EXCEPT ![r] = Ok]
  /\ productId' = [productId EXCEPT ![r] = 0]
  /\ filesToDelete' = [filesToDelete EXCEPT ![r] = <<>>]
  /\ croppedImages' = [croppedImages EXCEPT ![r] = UploadView(<<>>, FALSE)]
  /\ imgIdx' = [imgIdx EXCEPT ![r] = 0]
  /\ posted' = [posted EXCEPT ![r] = <<>>]
  /\ UNCHANGED logged

\* the upload of the archiving /api/done has failed: the session is kept
DoneArchiveFailed(r) ==
  /\ pc[r] = "archive"
  /\ pc' = [pc EXCEPT ![r] = "idle"]
  /\ reply' = [reply EXCEPT ![r] = Response(500, "Upload or publish failed")]
  /\ UNCHANGED <<session, disk, productId, filesToDelete, croppedImages, imgIdx, posted, logged>>

\* a product with any title is selected, one photo is queued and /api/done
\* waits for its upload
InitArchive ==
  /\ currentProduct \in ArchiveProducts
  /\ queuedFiles = <<FileA>>
  /\ disk = {Outside, FileN, FileA}
  /\ pc = [r \in Reqs |-> "archive"]
  /\ productId = [r \in Reqs |-> 42]
  /\ filesToDelete = [r \in Reqs |-> <<FileA>>]
  /\ croppedImages = [r \in Reqs |-> <<>>]
  /\ imgIdx = [r \in Reqs |-> 0]
  /\ posted = [r \in Reqs |-> <<>>]
  /\ reply = [r \in Reqs |-> NoResponse]
  /\ logged = [r \in Reqs |-> {}]

NextArchive ==
  \/ \E r \in Reqs, mkdirOk \in BOOLEAN, renameFails \in SUBSET {FileA} :
       DoneArchived(r, mkdirOk, renameFails)
  \/ \E r \in Reqs : DoneArchiveFailed(r)

SpecArchive == InitArchive /\ [][NextArchive]_vars

\* the title has no character left once the illegal ones and the white
\* space are taken out
SanitizesToNothing(product) ==
  \A i \in 1..Len(product.title.string) :
    IsIllegal(product.title.string[i]) \/ IsSpace(product.title.string[i])

\* C25: the folder name the archive step derives from the title of the
\* selected product has none of the characters < > : " / \ | ? *, has
\* between 1 and 60 characters, and is 'product' when the title is missing,
\* is not a string, or has nothing left after sanitizing.
C25_FolderNameIsSafe ==
  [][\A r \in Reqs :
       (\E mkdirOk \in BOOLEAN, renameFails \in SUBSET {FileA} :
          DoneArchived(r, mkdirOk, renameFails))
       => LET folderName == sanitizeFolderName(currentProduct)
          IN /\ \A i \in 1..Len(folderName) :
                  folderName[i] \notin {"<", ">", ":", "\"", "/", "\\", "|", "?", "*"}
             /\ Len(folderName) >= 1
             /\ Len(folderName) <= 60
             /\ ("title" \notin DOMAIN currentProduct => folderName = Placeholder)
             /\ ("title" \in DOMAIN currentProduct
                   /\ "string" \notin DOMAIN currentProduct.title
                   => folderName = Placeholder)
             /\ ("title" \in DOMAIN currentProduct
                   /\ "string" \in DOMAIN currentProduct.title
                   /\ SanitizesToNothing(currentProduct)
                   => folderName = Placeholder)]_vars

\* a title of more than 60 characters was archived under its first 60
C25_Witness ==
  /\ \A r \in Reqs : reply[r] = Ok
  /\ join(join(UPLOADED_DIR, Pad(60)), NameA) \in disk
  /\ FileA \notin disk


\* C26: the listing of the queue has one entry per queued path, in queue
\* order, each entry naming its path relative to the watched folder, whether
\* or not the file is still on disk; a file that vanishes changes nothing
\* in the listing.
C26_ListingFollowsQueue ==
  /\ [](/\ Len(QueuedPhotosRes.photos) = Len(queuedFiles)
        /\ \A i \in 1..Len(queuedFiles) :
             /\ WATCH_DIR \o <<"/">> \o QueuedPhotosRes.photos[i].relPath = queuedFiles[i]
             /\ EndsWith(queuedFiles[i], <<"/">> \o QueuedPhotosRes.photos[i].name))
  /\ [][\A filePath \in NotifiedPaths :
          FileVanished(filePath) => QueuedPhotosRes' = QueuedPhotosRes]_vars

\* two photos are listed and the file of the first one is gone
C26_Witness ==
  /\ queuedFiles = <<FileA, FileB>>
  /\ FileA \notin disk
  /\ FileB \in disk
  /\ Len(QueuedPhotosRes.photos) = 2
  /\ QueuedPhotosRes.photos[2].relPath = NameB


\* C27: with a product selected and photos queued, a select with an id is
\* always accepted and makes its product the selection, and the step deletes
\* and moves nothing: the disk is as before, the files that were queued are
\* still where they were, and none of them is tracked any more.
C27_SelectOrphansQueuedFiles ==
  /\ [][\A body \in SelectBodies :
          (SelectProduct(body) /\ SelectProductRes(body) = Ok
             /\ currentProduct # Null /\ queuedFiles # <<>>)
          => /\ currentProduct'[1].id = body["id"]
             /\ disk' = disk
             /\ \A filePath \in Range(queuedFiles) :
                  /\ filePath \in disk => filePath \in disk'
                  /\ filePath \notin Range(queuedFiles')]_vars
  /\ [](currentProduct # Null /\ queuedFiles # <<>>
          => \A body \in SelectBodies :
               SelectProductRes(body) = Ok
                 => ENABLED (SelectProduct(body) /\ currentProduct'[1].id = body["id"]))

\* no /api/done was ever sent; both photos are on disk, product 43 is
\* selected and nothing is queued
C27_Witness ==
  /\ \A r \in Reqs : pc[r] = "idle" /\ reply[r] = NoResponse
  /\ currentProduct # Null
  /\ currentProduct[1].id = 43
  /\ queuedFiles = <<>>
  /\ {FileA, FileB} \subseteq disk


\* C28: no step of /api/done before its last one touches the disk, its
\* failures included; the last step, the only one that deletes, is taken
\* only when every file of the batch has been posted, in order, and it
\* deletes nothing but files of the batch.
C28_OriginalsKeptUntilUploaded ==
  [][\A r \in Reqs :
       /\ DoneStepBeforeSuccess(r) => disk' = disk
       /\ (\E ok \in BOOLEAN, unlinkFails \in SUBSET WatchPaths :
             DonePublished(r, ok, unlinkFails))
          => /\ Len(posted[r]) = Len(filesToDelete[r])
             /\ \A k \in 1..Len(posted[r]) :
                  posted[r][k].attachment.of = filesToDelete[r][k]
             /\ (disk \ disk') \subseteq Range(filesToDelete[r])]_vars

\* a /api/done for two photos has failed and both originals are in place
C28_Witness ==
  \E r \in Reqs :
    /\ reply[r] = Response(500, "Upload or publish failed")
    /\ queuedFiles = <<FileB, FileA>>
    /\ {FileA, FileB} \subseteq disk


\* C29: the step that completes a /api/done with success takes out of the
\* queue only paths of its own batch: a path that was queued after the
\* request arrived is still queued afterwards.
C29_LateFileStaysQueued ==
  [][\A r \in Reqs :
       (\E ok \in BOOLEAN, unlinkFails \in SUBSET WatchPaths :
          DonePublished(r, ok, unlinkFails))
       => \A filePath \in Range(queuedFiles) :
            filePath \notin Range(filesToDelete[r])
              => filePath \in Range(queuedFiles')]_vars


(***************************************************************************)
(* Two /api/done requests at a time: nothing in the handler keeps a second *)
(* request from starting while the first one is awaiting its upload.       *)
(***************************************************************************)
Overlapping == {1, 2}

InitOverlap ==
  /\ currentProduct = Null
  /\ queuedFiles = <<>>
  /\ disk = {Outside, FileN}
  /\ pc = [r \in Overlapping |-> "idle"]
  /\ productId = [r \in Overlapping |-> 0]
  /\ filesToDelete = [r \in Overlapping |-> <<>>]
  /\ croppedImages = [r \in Overlapping |-> <<>>]
  /\ imgIdx = [r \in Overlapping |-> 0]
  /\ posted = [r \in Overlapping |-> <<>>]
  /\ reply = [r \in Overlapping |-> NoResponse]
  /\ logged = [r \in Overlapping |-> {}]

NextOverlap ==
  \/ \E body \in SelectBodies : SelectProduct(body)
  \/ \E filePath \in WatchPaths : FileDropped(filePath)
  \/ \E r \in Overlapping : DoneStart(r)
  \/ \E r \in Overlapping, i \in 1..MaxQueue, sharpOk \in BOOLEAN :
        DoneCropSettled(r, i, sharpOk)
  \/ \E r \in Overlapping, ok \in BOOLEAN : DonePosted(r, ok)
  \/ \E r \in Overlapping, ok \in BOOLEAN : DoneStatusPut(r, ok)
  \/ \E r \in Overlapping, ok \in BOOLEAN, unlinkFails \in SUBSET WatchPaths :
        DonePublished(r, ok, unlinkFails)

SpecOverlap == InitOverlap /\ [][NextOverlap]_vars

\* C30: two /api/done requests in flight at the same time never have both
\* posted an image of the same queued file to the same product.
C30_OverlappingDonesUploadOnce ==
  \A r1, r2 \in DOMAIN pc :
    (r1 # r2 /\ pc[r1] # "idle" /\ pc[r2] # "idle" /\ productId[r1] = productId[r2])
      => \A k1 \in 1..Len(posted[r1]), k2 \in 1..Len(posted[r2]) :
           posted[r1][k1].attachment.of # posted[r2][k2].attachment.of


\* how often path p occurs in the queue
Occurrences(p, queue) == Cardinality({i \in 1..Len(queue) : queue[i] = p})

\* C31: a reorder-photos that is answered ok, on a queue that holds no path
\* twice, leaves the queue a permutation of what it was: every path occurs
\* in it as often as before.
C31_ReorderPermutes ==
  [][\A order \in OrderArrays :
       (ReorderPhotos(order) /\ ReorderPhotosRes(order) = Ok /\ NoRepeat(queuedFiles)) =>
          \A p \in WatchPaths :
            Occurrences(p, queuedFiles') = Occurrences(p, queuedFiles)]_vars


(***************************************************************************)
(* Every handler, with two /api/done requests at a time. One photo is      *)
(* enough here: it can be reported any number of times.                    *)
(***************************************************************************)
NextInterleaved ==
  \/ \E body \in SelectBodies : SelectProduct(body)
  \/ FileDropped(FileA)
  \/ FileReported(FileA)
  \/ \E relPath \in {RelDotA, NameZ}, unlinkOk \in BOOLEAN : RemovePhoto(relPath, unlinkOk)
  \/ \E order \in {<<NameA>>, <<NameA, NameA>>, <<NameB>>} : ReorderPhotos(order)
  \/ \E r \in Overlapping : DoneStart(r)
  \/ \E r \in Overlapping, i \in 1..MaxQueue, sharpOk \in BOOLEAN :
        DoneCropSettled(r, i, sharpOk)
  \/ \E r \in Overlapping, ok \in BOOLEAN : DonePosted(r, ok)
  \/ \E r \in Overlapping, ok \in BOOLEAN : DoneStatusPut(r, ok)
  \/ \E r \in Overlapping, ok \in BOOLEAN, unlinkFails \in SUBSET {FileA} :
        DonePublished(r, ok, unlinkFails)

SpecInterleaved == InitOverlap /\ [][NextInterleaved]_vars

\* C32: whenever no product is selected the queue is empty.
C32_NoSelectionMeansEmptyQueue ==
  currentProduct = Null => queuedFiles = <<>>


\* the first /api/done has cleared the session while the second one, started
\* on the same queue, is still posting
C32_Witness ==
  /\ currentProduct = Null
  /\ queuedFiles = <<>>
  /\ reply[1] = Ok
  /\ pc[2] = "post"
  /\ filesToDelete[2] = <<FileA, FileA>>


(***************************************************************************)
(* The archiving revision from end to end: select-product, the watcher and *)
(* /api/done, which hands the live array queuedFiles to                    *)
(* uploadImagesToProduct(productId, localFilePaths).                       *)
(* Here currentProduct is the product record itself, croppedImages[r] is   *)
(* the array the upload loop of request r walks, with `live` telling       *)
(* whether it still is the array the variable queuedFiles refers to, and   *)
(* filesToDelete[r] is filesToArchive.                                     *)
(***************************************************************************)
\* bodies of select-product: two products with a title, and one without id
TitledBodies ==
  { [id |-> 42, title |-> [string |-> <<"a">>]],
    [id |-> 43, title |-> [string |-> <<"b">>]],
    [title |-> [string |-> <<"c">>]] }

\* the loop of uploadImagesToProduct runs on from position i without an
\* await as long as it skips: a file that is missing or not an image
NextUploadable(files, i) ==
  LET found == {j \in i..Len(files) :
                  files[j] \in disk /\ watchExt[files[j]] \in allowedExts}
  IN IF found = {} THEN Len(files) + 1
     ELSE CHOOSE j \in found : \A k \in found : j <= k

\* POST /api/select-product: queuedFiles = [] is a new array, the arrays
\* the requests in flight walk are no longer the live one
ArchSelectProduct(body) ==
  /\ IF "id" \notin DOMAIN body
     THEN UNCHANGED <<session, croppedImages>>
     ELSE /\ currentProduct' = body
          /\ queuedFiles' = <<>>
          /\ croppedImages' =
               [r \in DOMAIN croppedImages |-> UploadView(croppedImages[r].files, FALSE)]
  /\ UNCHANGED <<disk, pc, productId, filesToDelete, imgIdx, posted, reply, logged>>

\* the 'add' handler: queuedFiles.push grows the live array, which a
\* request in flight may be walking
ArchOnFileAdded(filePath) ==
  IF watchExt[filePath] \in allowedExts /\ currentProduct # Null
  THEN /\ Len(queuedFiles) < MaxQueue
       /\ queuedFiles' = Append(queuedFiles, filePath)
       /\ croppedImages' =
            [r \in DOMAIN croppedImages |->
               IF croppedImages[r].live /\ pc[r] # "idle"
               THEN UploadView(Append(croppedImages[r].files, filePath), TRUE)
               ELSE croppedImages[r]]
       /\ UNCHANGED currentProduct
  ELSE UNCHANGED <<session, croppedImages>>

ArchFileDropped(filePath) ==
  /\ filePath \notin disk
  /\ disk' = disk \cup {filePath}
  /\ ArchOnFileAdded(filePath)
  /\ UNCHANGED <<pc, productId, filesToDelete, imgIdx, posted, reply, logged>>

\* the request arrives: the checks, the snapshot filesToArchive, and the
\* upload loop up to its first POST
ArchDoneStart(r) ==
  /\ pc[r] = "idle"
  /\ logged' = [logged EXCEPT ![r] = {}]
  /\ IF currentProduct = Null
     THEN /\ reply' = [reply EXCEPT ![r] = Response(400, "No product selected")]
          /\ UNCHANGED <<session, disk, pc, productId, filesToDelete,
                         croppedImages, imgIdx, posted>>
     ELSE IF Len(queuedFiles) = 0
     THEN /\ reply' = [reply EXCEPT ![r] = Response(400, "No files queued")]
          /\ UNCHANGED <<session, disk, pc, productId, filesToDelete,
                         croppedImages, imgIdx, posted>>
     ELSE LET first == NextUploadable(queuedFiles, 1)
          IN /\ productId' = [productId EXCEPT ![r] = currentProduct.id]
             /\ filesToDelete' = [filesToDelete EXCEPT ![r] = queuedFiles]
             /\ croppedImages' = [croppedImages EXCEPT ![r] = UploadView(queuedFiles, TRUE)]
             /\ imgIdx' = [imgIdx EXCEPT ![r] = first]
             /\ posted' = [posted EXCEPT ![r] = <<>>]
             /\ pc' = [pc EXCEPT
                         ![r] = IF first > Len(queuedFiles) THEN "put" ELSE "upload"]
             /\ reply' = [reply EXCEPT ![r] = NoResponse]
             /\ UNCHANGED <<session, disk>>

\* the catalog answers the POST of the file at imgIdx; the loop goes on to
\* its next POST or leaves the array
ArchPosted(r, ok) ==
  /\ pc[r] = "upload"
  /\ IF ~ok
     THEN /\ pc' = [pc EXCEPT ![r] = "idle"]
          /\ reply' = [reply EXCEPT ![r] = Response(500, "Upload or publish failed")]
          /\ productId' = [productId EXCEPT ![r] = 0]
          /\ filesToDelete' = [filesToDelete EXCEPT ![r] = <<>>]
          /\ croppedImages' = [croppedImages EXCEPT ![r] = UploadView(<<>>, FALSE)]
          /\ imgIdx' = [imgIdx EXCEPT ![r] = 0]
          /\ posted' = [posted EXCEPT ![r] = <<>>]
          /\ UNCHANGED <<session, disk, logged>>
     ELSE LET files == croppedImages[r].files
              nxt == NextUploadable(files, imgIdx[r] + 1)
          IN /\ posted' =
                  [posted EXCEPT
                     ![r] = Append(@, [product |-> productId[r],
                                       attachment |-> [bytes |-> "raw",
                                                       of |-> files[imgIdx[r]]]])]
             /\ imgIdx' = [imgIdx EXCEPT ![r] = nxt]
             /\ pc' = [pc EXCEPT ![r] = IF nxt > Len(files) THEN "put" ELSE "upload"]
             /\ UNCHANGED <<session, disk, productId, filesToDelete, croppedImages,
                            reply, logged>>

\* the catalog answers the PUT of the status; a failure is caught and
\* written to the console, and the publish request is sent
ArchStatusPut(r, ok) ==
  /\ pc[r] = "put"
  /\ pc' = [pc EXCEPT ![r] = "archive"]
  /\ UNCHANGED <<session, disk, productId, filesToDelete, croppedImages,
                 imgIdx, posted, reply, logged>>

InitArchiving ==
  /\ currentProduct = Null
  /\ queuedFiles = <<>>
  /\ disk = {Outside, FileN}
  /\ pc = [r \in Reqs |-> "idle"]
  /\ productId = [r \in Reqs |-> 0]
  /\ filesToDelete = [r \in Reqs |-> <<>>]
  /\ croppedImages = [r \in Reqs |-> UploadView(<<>>, FALSE)]
  /\ imgIdx = [r \in Reqs |-> 0]
  /\ posted = [r \in Reqs |-> <<>>]
  /\ reply = [r \in Reqs |-> NoResponse]
  /\ logged = [r \in Reqs |-> {}]

NextArchiving ==
  \/ \E body \in TitledBodies : ArchSelectProduct(body)
  \/ \E filePath \in {FileA, FileB} : ArchFileDropped(filePath)
  \/ \E filePath \in {FileA, FileB} : FileVanished(filePath)
  \/ \E r \in Reqs : ArchDoneStart(r)
  \/ \E r \in Reqs, ok \in BOOLEAN : ArchPosted(r, ok)
  \/ \E r \in Reqs, ok \in BOOLEAN : ArchStatusPut(r, ok)
  \/ \E r \in Reqs, mkdirOk \in BOOLEAN, renameFails \in SUBSET {FileA} :
        DoneArchived(r, mkdirOk, renameFails)

SpecArchiving == InitArchiving /\ [][NextArchiving]_vars

\* C33: a /api/done that is answered ok has posted as many images as the
\* queue held when the request arrived.
C33_OkMeansEveryFilePosted ==
  [][\A r \in Reqs :
       (pc[r] # "idle" /\ pc'[r] = "idle" /\ reply'[r] = Ok)
         => Len(posted[r]) = Len(filesToDelete[r])]_vars


\* C34: the upload posts one image per step, in order; a POST that fails ends
\* the request with 500 and nothing more is posted or published for it; the
\* status PUT and the publish request are sent only when every image of the
\* batch has been posted.
C34_UploadStopsAtFirstFailure ==
  /\ [][\A r \in Reqs :
          /\ (posted'[r] # posted[r] /\ pc'[r] # "idle")
               => /\ pc[r] = "post"
                  /\ Len(posted'[r]) = Len(posted[r]) + 1
                  /\ posted'[r][Len(posted'[r])].attachment.of
                       = filesToDelete[r][Len(posted[r]) + 1]
                  /\ pc'[r] \in {"post", "put"}
          /\ (pc[r] = "post" /\ pc'[r] = "idle")
               => /\ reply'[r].status = 500
                  /\ Len(posted[r]) < Len(filesToDelete[r])
          /\ (pc'[r] \in {"put", "publish"})
               => Len(posted'[r]) = Len(filesToDelete'[r])]_vars
  /\ [](\A r \in Reqs :
          /\ pc[r] = "post" => Len(posted[r]) = imgIdx[r] - 1
          /\ pc[r] = "crop" => posted[r] = <<>>)

\* the first of two images has been posted, the second POST is awaited, and
\* the product has not been set active yet
C34_Witness ==
  \E r \in Reqs :
    /\ pc[r] = "post"
    /\ imgIdx[r] = 2
    /\ Len(posted[r]) = 1
    /\ Len(filesToDelete[r]) = 2
    /\ "status" \notin logged[r]


\* the entries of the queue other than path abs, in their order
OtherEntries(queue, abs) == SelectSeq(queue, LAMBDA p : p # abs)

\* C35: a remove-photo for a queued path takes that path out of the queue
\* and leaves the other entries in their order, the selection and the
\* requests in flight as they are, and no file but that one is deleted.
C35_RemoveTakesOnlyItsPath ==
  [][\A relPath \in RelInputs \ {<<>>}, unlinkOk \in BOOLEAN :
       (RemovePhoto(relPath, unlinkOk) /\ ~IsNotQueued(relPath)) =>
          /\ relToAbs[relPath] \notin Range(queuedFiles')
          /\ OtherEntries(queuedFiles', relToAbs[relPath])
               = OtherEntries(queuedFiles, relToAbs[relPath])
          /\ currentProduct' = currentProduct
          /\ (disk \ disk') \subseteq {relToAbs[relPath]}
          /\ UNCHANGED locals]_vars

\* b.PNG, the first photo of the queue a /api/done captured, was removed
\* while that request is in flight; a.jpg is still queued for the product
C35_Witness ==
  \E r \in Reqs :
    /\ pc[r] # "idle"
    /\ filesToDelete[r] = <<FileB, FileA>>
    /\ currentProduct # Null
    /\ currentProduct[1].id = productId[r]
    /\ queuedFiles = <<FileA>>
    /\ FileB \notin disk


\* the archive folder of the product with this id
FolderOfProduct(id) ==
  join(UPLOADED_DIR,
       sanitizeFolderName(CHOOSE body \in TitledBodies :
                            "id" \in DOMAIN body /\ body.id = id))

\* C36: the step that completes an archiving /api/done with ok moves every
\* original of its batch that it takes out of the watched folder into the
\* folder of the product that was selected when the request arrived.
C36_ArchivedUnderStartSelection ==
  [][\A r \in Reqs :
       (pc[r] = "archive" /\ pc'[r] = "idle" /\ reply'[r] = Ok)
         => \A filePath \in Range(filesToDelete[r]) :
              (filePath \in disk /\ filePath \notin disk')
                => join(FolderOfProduct(productId[r]), basename(filePath)) \in disk']_vars


(***************************************************************************)
(* GET /photo-preview (src/server.js 176-188)                              *)
(***************************************************************************)
\* a file in a directory next to the watched one, whose name begins with
\* the watched folder's name
Sibling == <<"/", "w", "2", "/", "s", ".", "j", "p", "g">>
RelSibling == <<".", ".", "/", "w", "2", "/", "s", ".", "j", "p", "g">>

\* the values of req.query.file the requests carry (<<>>: no parameter)
PreviewQueries == {<<>>, NameA, NameZ, RelOutside, RelSibling, Sibling,
   <<".", ".", "/", "w", "/">> \o NameA}

\* path.resolve(WATCH_DIR, rel), tabulated
previewAbs == [rel \in PreviewQueries |-> resolve(WATCH_DIR, rel)]

\* String.prototype.startsWith
startsWith(s, prefix) ==
  Len(s) >= Len(prefix) /\ SubSeq(s, 1, Len(prefix)) = prefix

\* path.normalize(WATCH_DIR), computed once
NormalizedWatchDir == normalize(WATCH_DIR)

\* res.sendFile(absPath)
SendFile(absPath) == [status |-> 200, error |-> "", file |-> absPath]

\* the response of the handler; it reads the disk and changes nothing
PhotoPreviewRes(rel) ==
  IF rel = <<>> THEN Response(400, "Missing file parameter")
  ELSE IF ~startsWith(previewAbs[rel], NormalizedWatchDir)
  THEN Response(400, "Invalid path")
  ELSE IF previewAbs[rel] \notin disk THEN Response(404, "File not found")
  ELSE SendFile(previewAbs[rel])

PhotoPreview(r, rel) ==
  /\ reply' = [reply EXCEPT ![r] = PhotoPreviewRes(rel)]
  /\ UNCHANGED <<session, disk, pc, productId, filesToDelete, croppedImages,
                 imgIdx, posted, logged>>

\* the preview endpoint next to the watcher, with files coming and going
\* inside and outside the watched folder
InitPreview ==
  /\ currentProduct = Null
  /\ queuedFiles = <<>>
  /\ disk = {Outside, Sibling, FileN}
  /\ pc = [r \in Reqs |-> "idle"]
  /\ productId = [r \in Reqs |-> 0]
  /\ filesToDelete = [r \in Reqs |-> <<>>]
  /\ croppedImages = [r \in Reqs |-> <<>>]
  /\ imgIdx = [r \in Reqs |-> 0]
  /\ posted = [r \in Reqs |-> <<>>]
  /\ reply = [r \in Reqs |-> NoResponse]
  /\ logged = [r \in Reqs |-> {}]

NextPreview ==
  \/ \E filePath \in WatchPaths : FileDropped(filePath)
  \/ \E filePath \in WatchPaths \cup {Sibling, Outside} : FileVanished(filePath)
  \/ \E r \in Reqs, rel \in PreviewQueries : PhotoPreview(r, rel)

SpecPreview == InitPreview /\ [][NextPreview]_vars

\* the path is the watched folder or lies beneath it
IsWithinWatchDir(absPath) == absPath = WATCH_DIR \/ IsInsideWatchDir(absPath)

\* C37: the preview endpoint sends a file only when the resolved path lies
\* inside the watched folder; a query resolving outside of it, a sibling
\* directory whose name begins with the folder's name included, is answered
\* 400 "Invalid path".
C37_PreviewStaysInsideRoot ==
  [][\A r \in Reqs, rel \in PreviewQueries \ {<<>>} :
       PhotoPreview(r, rel) =>
          /\ reply'[r].status = 200 => IsWithinWatchDir(reply'[r].file)
          /\ ~IsWithinWatchDir(previewAbs[rel]) =>
                reply'[r] = Response(400, "Invalid path")]_vars


(***************************************************************************)
(* The revision that writes normalized, square images to a temp folder     *)
(* (src/unnamed/part_002 581-894): /api/done crops every queued file with  *)
(* cropImageToSquare, uploads the files the crops return, and archives     *)
(* the originals.  croppedImages[r].files is croppedPaths, with Null       *)
(* for a crop that has not settled.                                        *)
(***************************************************************************)
CROPPED_DIR == <<"/", "t">>

\* a photo with the base name of FileA and another extension
FileP == WATCH_DIR \o <<"/", "a", ".", "p", "n", "g">>
CropWatched == {FileA, FileP}

\* the file cropImageToSquare writes for filePath, tabulated
outPath ==
  [filePath \in CropWatched |->
     join(CROPPED_DIR, basenameExt(filePath, extname(filePath)) \o SquareSuffix)]

cropExt ==
  [p \in CropWatched \cup {outPath[q] : q \in CropWatched} |-> toLowerCase(extname(p))]

\* the 'add' handler of this revision
CropOnFileAdded(filePath) ==
  IF cropExt[filePath] \in allowedExts /\ currentProduct # Null
  THEN /\ Len(queuedFiles) < MaxQueue
       /\ queuedFiles' = Append(queuedFiles, filePath)
       /\ UNCHANGED <<currentProduct, croppedImages>>
  ELSE UNCHANGED <<session, croppedImages>>

CropFileDropped(filePath) ==
  /\ filePath \notin disk
  /\ disk' = disk \cup {filePath}
  /\ CropOnFileAdded(filePath)
  /\ UNCHANGED <<pc, productId, filesToDelete, imgIdx, posted, reply, logged>>

\* the upload loop skips a path that is missing or not an image
CropNextUploadable(files, i) ==
  LET found == {j \in i..Len(files) :
                  files[j] \in disk /\ cropExt[files[j]] \in allowedExts}
  IN IF found = {} THEN Len(files) + 1
     ELSE CHOOSE j \in found : \A k \in found : j <= k

\* the request arrives: the checks, the snapshot filesToArchive, and
\* queuedFiles.map(cropImageToSquare) starting one crop per queued file
CropDoneStart(r) ==
  /\ pc[r] = "idle"
  /\ logged' = [logged EXCEPT ![r] = {}]
  /\ IF currentProduct = Null
     THEN /\ reply' = [reply EXCEPT ![r] = Response(400, "No product selected")]
          /\ UNCHANGED <<session, disk, pc, productId, filesToDelete,
                         croppedImages, imgIdx, posted>>
     ELSE IF Len(queuedFiles) = 0
     THEN /\ reply' = [reply EXCEPT ![r] = Response(400, "No files queued")]
          /\ UNCHANGED <<session, disk, pc, productId, filesToDelete,
                         croppedImages, imgIdx, posted>>
     ELSE /\ productId' = [productId EXCEPT ![r] = currentProduct.id]
          /\ filesToDelete' = [filesToDelete EXCEPT ![r] = queuedFiles]
          /\ croppedImages' =
               [croppedImages EXCEPT
                  ![r] = UploadView([i \in 1..Len(queuedFiles) |-> Null], FALSE)]
          /\ imgIdx' = [imgIdx EXCEPT ![r] = 0]
          /\ posted' = [posted EXCEPT ![r] = <<>>]
          /\ pc' = [pc EXCEPT ![r] = "crop"]
          /\ reply' = [reply EXCEPT ![r] = NoResponse]
          /\ UNCHANGED <<session, disk>>

\* the crop of the i-th file settles: it has written its output file and
\* returns outPath, or it has failed and returns the original path.  When
\* the last one settles, Promise.all resolves and the upload loop runs up
\* to its first POST
CropImageSettles(r, i, ok) ==
  /\ pc[r] = "crop"
  /\ i \in 1..Len(croppedImages[r].files)
  /\ croppedImages[r].files[i] = Null
  /\ ok => filesToDelete[r][i] \in disk
  /\ LET filePath == filesToDelete[r][i]
         result == IF ok THEN outPath[filePath] ELSE filePath
         paths == [croppedImages[r].files EXCEPT ![i] = result]
         diskAfter == IF ok THEN disk \cup {outPath[filePath]} ELSE disk
         first == LET found == {j \in 1..Len(paths) :
                                  paths[j] \in diskAfter /\ cropExt[paths[j]] \in allowedExts}
                  IN IF found = {} THEN Len(paths) + 1
                     ELSE CHOOSE j \in found : \A k \in found : j <= k
     IN /\ disk' = diskAfter
        /\ croppedImages' = [croppedImages EXCEPT ![r] = UploadView(paths, FALSE)]
        /\ IF \E j \in 1..Len(paths) : paths[j] = Null
           THEN UNCHANGED <<pc, imgIdx>>
           ELSE /\ imgIdx' = [imgIdx EXCEPT ![r] = first]
                /\ pc' = [pc EXCEPT
                            ![r] = IF first > Len(paths) THEN "put" ELSE "upload"]
  /\ UNCHANGED <<session, productId, filesToDelete, posted, reply, logged>>

\* the catalog answers the POST of the file at imgIdx
CropPosted(r, ok) ==
  /\ pc[r] = "upload"
  /\ IF ~ok
     THEN /\ pc' = [pc EXCEPT ![r] = "idle"]
          /\ reply' = [reply EXCEPT ![r] = Response(500, "Upload or publish failed")]
          /\ productId' = [productId EXCEPT ![r] = 0]
          /\ filesToDelete' = [filesToDelete EXCEPT ![r] = <<>>]
          /\ croppedImages' = [croppedImages EXCEPT ![r] = UploadView(<<>>, FALSE)]
          /\ imgIdx' = [imgIdx EXCEPT ![r] = 0]
          /\ posted' = [posted EXCEPT ![r] = <<>>]
          /\ UNCHANGED <<session, disk, logged>>
     ELSE LET files == croppedImages[r].files
              nxt == CropNextUploadable(files, imgIdx[r] + 1)
          IN /\ posted' =
                  [posted EXCEPT
                     ![r] = Append(@, [product |-> productId[r],
                                       attachment |-> [bytes |-> "raw",
                                                       of |-> files[imgIdx[r]]]])]
             /\ imgIdx' = [imgIdx EXCEPT ![r] = nxt]
             /\ pc' = [pc EXCEPT ![r] = IF nxt > Len(files) THEN "put" ELSE "upload"]
             /\ UNCHANGED <<session, disk, productId, filesToDelete, croppedImages,
                            reply, logged>>

NextCropping ==
  \/ \E body \in TitledBodies : ArchSelectProduct(body)
  \/ \E filePath \in CropWatched : CropFileDropped(filePath)
  \/ \E filePath \in CropWatched : FileVanished(filePath)
  \/ \E r \in Reqs : CropDoneStart(r)
  \/ \E r \in Reqs, i \in 1..MaxQueue, ok \in BOOLEAN : CropImageSettles(r, i, ok)
  \/ \E r \in Reqs, ok \in BOOLEAN : CropPosted(r, ok)
  \/ \E r \in Reqs, ok \in BOOLEAN : ArchStatusPut(r, ok)
  \/ \E r \in Reqs, mkdirOk \in BOOLEAN, renameFails \in SUBSET {FileA} :
        DoneArchived(r, mkdirOk, renameFails)

SpecCropping == InitArchiving /\ [][NextCropping]_vars

\* C38: in the revision that crops into a temp folder, two different queued
\* files are given two different output files.
C38_DistinctFilesDistinctOutputs ==
  \A r \in Reqs :
    pc[r] # "idle" =>
      \A i, j \in 1..Len(filesToDelete[r]) :
        ( /\ filesToDelete[r][i] # filesToDelete[r][j]
          /\ croppedImages[r].files[i] # Null
          /\ croppedImages[r].files[j] # Null )
          => croppedImages[r].files[i] # croppedImages[r].files[j]


(***************************************************************************)
(* fetchAllProductsFromUrl and getNextLink (src/shopify.js 234-299).       *)
(* The locals of the call request r has in flight, all and url, are kept   *)
(* in croppedImages[r]; pc[r] = "page" while the call awaits a page, and   *)
(* reply[r] is what the call returned or threw.                            *)
(***************************************************************************)
\* String.prototype.split(c) for a one-character separator
SplitOn(s, c) ==
  LET seps == <<0>>
                \o SelectSeq([k \in 1..Len(s) |-> k], LAMBDA k : s[k] = c)
                \o <<Len(s) + 1>>
  IN [n \in 1..(Len(seps) - 1) |-> SubSeq(s, seps[n] + 1, seps[n + 1] - 1)]

\* String.prototype.includes
includes(s, sub) ==
  \E i \in 1..(Len(s) - Len(sub) + 1) : SubSeq(s, i, i + Len(sub) - 1) = sub

RelNext == <<"r", "e", "l", "=", "\"", "n", "e", "x", "t", "\"">>
RelPrevious == <<"r", "e", "l", "=", "\"", "p", "r", "e", "v", "i", "o", "u", "s", "\"">>

\* urlPart.match(/<([^>]+)>/): the leftmost "<" that is followed by at
\* least one character other than ">" and then by ">"; Null without a match
MatchBracketed(urlPart) ==
  LET closing(i) == {j \in (i + 1)..Len(urlPart) : urlPart[j] = ">"}
      firstClosing(i) == CHOOSE j \in closing(i) : \A k \in closing(i) : j <= k
      opens == {i \in 1..Len(urlPart) :
                  /\ urlPart[i] = "<"
                  /\ closing(i) # {}
                  /\ firstClosing(i) >= i + 2}
  IN IF opens = {} THEN Null
     ELSE LET i == CHOOSE i \in opens : \A k \in opens : i <= k
          IN SubSeq(urlPart, i + 1, firstClosing(i) - 1)

getNextLink(linkHeader) ==
  IF linkHeader = <<>> THEN Null
  ELSE LET parts == SplitOn(linkHeader, ",")
           pieces(n) == LET split == SplitOn(parts[n], ";")
                        IN [k \in 1..Len(split) |-> trim(split[k])]
           found == {n \in 1..Len(parts) :
                       /\ Len(pieces(n)) >= 2
                       /\ pieces(n)[2] # <<>>
                       /\ includes(pieces(n)[2], RelNext)
                       /\ MatchBracketed(pieces(n)[1]) # Null}
       IN IF found = {} THEN Null
          ELSE MatchBracketed(pieces(CHOOSE n \in found : \A k \in found : n <= k)[1])

\* the cap on the accumulated products
ProductLimit == 1000

\* the urls of the pages, the first being startUrl
UrlOne == <<"u", "1">>
UrlTwo == <<"u", "2">>

LinkPart(url, rel) == <<"<">> \o url \o <<">", ";", " ">> \o rel

\* the Link headers the catalog answers with (<<>>: no Link header)
LinkHeaders ==
  { <<>>,
    LinkPart(UrlOne, RelNext),
    LinkPart(UrlTwo, RelNext),
    LinkPart(UrlOne, RelPrevious),
    LinkPart(UrlOne, RelPrevious) \o <<",", " ">> \o LinkPart(UrlTwo, RelNext),
    UrlTwo \o <<";", " ">> \o RelNext }

nextLink == [linkHeader \in LinkHeaders |-> getNextLink(linkHeader)]

\* the number of products a page carries
PageSizes == {0, 1, 250, 400}

\* json.products: an array of products, or something that is no array
PageBodies ==
  {[isArray |-> TRUE, length |-> n] : n \in PageSizes}
    \cup {[isArray |-> FALSE, length |-> 0]}

\* Array.isArray(json.products) ? json.products : []
PageProducts(body) ==
  IF body.isArray THEN [i \in 1..body.length |-> "product"] ELSE <<>>

\* what the catalog can answer to one page request
PageResponses ==
  [ json : BOOLEAN, ok : BOOLEAN, errors : BOOLEAN,
    products : PageBodies, link : LinkHeaders ]

FetchLocals(all, url) == [all |-> all, url |-> url]
Returned(all) == [returned |-> all]
Thrown(message) == [thrown |-> message]

\* the call: all = [], url = startUrl, and the first page is requested
FetchStart(r, startUrl) ==
  /\ pc[r] = "idle"
  /\ pc' = [pc EXCEPT ![r] = "page"]
  /\ croppedImages' = [croppedImages EXCEPT ![r] = FetchLocals(<<>>, startUrl)]
  /\ reply' = [reply EXCEPT ![r] = NoResponse]
  /\ UNCHANGED <<session, disk, productId, filesToDelete, imgIdx, posted, logged>>

\* the page arrives: one turn of the while loop, up to the next request
\* or to the end of the call
FetchPage(r, res) ==
  /\ pc[r] = "page"
  /\ LET all == croppedImages[r].all \o PageProducts(res.products)
         nextUrl == nextLink[res.link]
         finish(result) ==
           /\ pc' = [pc EXCEPT ![r] = "idle"]
           /\ reply' = [reply EXCEPT ![r] = result]
           /\ croppedImages' = [croppedImages EXCEPT ![r] = FetchLocals(<<>>, Null)]
     IN IF ~res.json THEN finish(Thrown("Shopify REST returned non JSON"))
        ELSE IF ~res.ok THEN finish(Thrown("Shopify REST error"))
        ELSE IF res.errors THEN finish(Thrown("Shopify REST returned an error payload"))
        ELSE IF Len(all) >= ProductLimit THEN finish(Returned(SubSeq(all, 1, ProductLimit)))
        ELSE IF nextUrl = Null THEN finish(Returned(all))
        ELSE /\ croppedImages' = [croppedImages EXCEPT ![r] = FetchLocals(all, nextUrl)]
             /\ UNCHANGED <<pc, reply>>
  /\ UNCHANGED <<session, disk, productId, filesToDelete, imgIdx, posted, logged>>

InitFetch ==
  /\ currentProduct = Null
  /\ queuedFiles = <<>>
  /\ disk = {Outside, FileN}
  /\ pc = [r \in Reqs |-> "idle"]
  /\ productId = [r \in Reqs |-> 0]
  /\ filesToDelete = [r \in Reqs |-> <<>>]
  /\ croppedImages = [r \in Reqs |-> FetchLocals(<<>>, Null)]
  /\ imgIdx = [r \in Reqs |-> 0]
  /\ posted = [r \in Reqs |-> <<>>]
  /\ reply = [r \in Reqs |-> NoResponse]
  /\ logged = [r \in Reqs |-> {}]

NextFetch ==
  \/ \E r \in Reqs : FetchStart(r, UrlOne)
  \/ \E r \in Reqs, res \in PageResponses : FetchPage(r, res)

\* a page request is answered sooner or later
SpecFetch ==
  /\ InitFetch
  /\ [][NextFetch]_vars
  /\ \A r \in Reqs : WF_vars(\E res \in PageResponses : FetchPage(r, res))

\* what a call returns has at most ProductLimit products
FetchReturnsAtMostLimit ==
  \A r \in Reqs :
    "returned" \in DOMAIN reply[r] => Len(reply[r].returned) <= ProductLimit

\* the call goes on to another page only below the limit and after a page
\* with a next link, and returns at the limit or at a page without one
FetchStopsWhereItShould ==
  \A r \in Reqs, res \in PageResponses :
    (FetchPage(r, res) /\ res.json /\ res.ok /\ ~res.errors) =>
       LET all == croppedImages[r].all \o PageProducts(res.products)
       IN IF Len(all) >= ProductLimit
          THEN reply'[r] = Returned(SubSeq(all, 1, ProductLimit))
          ELSE IF nextLink[res.link] = Null
          THEN reply'[r] = Returned(all)
          ELSE pc'[r] = "page"

\* C39: the paginated fetch ends, and returns at most 1000 products: it
\* stops at the first page without a rel="next" link, or as soon as 1000
\* products are accumulated, cut to exactly 1000.
C39_FetchEndsWithinLimit ==
  /\ []FetchReturnsAtMostLimit
  /\ [][FetchStopsWhereItShould]_vars
  /\ \A r \in Reqs : (pc[r] = "page") ~> (pc[r] = "idle")

=============================================================================
